---- MODULE Spec2Model ----
(***************************************************************************)
(* Access gate, credential store and decryption pipeline of the wedding    *)
(* web site.  Two copies of the main script are in the repository:         *)
(* src/script.js and src/unnamed/part_000.  They differ in PUBLIC_PAGES,   *)
(* in the default page name, in the redirect of checkAuthentication and in *)
(* logout; the variable `build` says which copy the browser has loaded.    *)
(*                                                                         *)
(* Strings the code takes apart (page names) are sequences of pieces, so   *)
(* "gallery.html" is <<"gallery", ".html">> and '' is <<>>.  A value that  *)
(* may be null in the code is a sequence of length 0 or 1.                 *)
(***************************************************************************)
EXTENDS Integers, Sequences, FiniteSets, TLC

\* most ".html" suffixes a page name is tried with ("gallery.html.html" has two)
MaxExt == 1

\* ---------------------------------------------------------------- values

AUTH_TOKEN_KEY == "wedding_auth_token"
DOOR_SEEN_KEY == "doorAnimationSeen"
SENTINEL == "authenticated"

Builds == {"script.js", "part_000"}

\* the token the configured records (CONFIG.ENCRYPTED_NAMES, ...) were encrypted with
KeyToken == "T1"
\* strings that can sit under AUTH_TOKEN_KEY
TokenStrings == {"", "T1", "T2", SENTINEL, "7"}

Null == <<>>
Some(x) == <<x>>

\* a JavaScript scalar: an absent property, a string or a number (by its decimal text)
Undefined == [k |-> "undefined", s |-> ""]
Str(s) == [k |-> "string", s |-> s]
Num(s) == [k |-> "number", s |-> s]

\* JavaScript truthiness of a scalar
Truthy(x) ==
    CASE x.k = "undefined" -> FALSE
      [] x.k = "string" -> x.s # ""
      [] x.k = "number" -> x.s # "0"

\* x === 'lit'
StrictEq(x, lit) == x.k = "string" /\ x.s = lit

\* String(x), the conversion localStorage.setItem applies to its value
JsString(x) == IF x.k = "undefined" THEN "undefined" ELSE x.s

\* a parsed JSON body: null, a bare string, or an object with optional status and token
JsonNull == [kind |-> "null", status |-> Undefined, token |-> Undefined]
JsonString == [kind |-> "string", status |-> Undefined, token |-> Undefined]
JsonObject(st, tk) == [kind |-> "object", status |-> st, token |-> tk]

StatusValues == {Undefined, Str("ok"), Str("error")}
TokenValues == {Undefined, Str(""), Str("T1"), Str("T2"), Str(SENTINEL), Num("7"), Num("0")}
JsonBodies == {JsonNull, JsonString} \cup {JsonObject(st, tk) : st \in StatusValues, tk \in TokenValues}

\* what fetch + response.json() can do: reject, or answer with response.ok and a body
\* that parses (parsed = TRUE) or not
NetworkError == [net |-> "error", ok |-> FALSE, parsed |-> FALSE, body |-> JsonNull]
Response(ok, parsed, body) == [net |-> "response", ok |-> ok, parsed |-> parsed, body |-> body]
FetchOutcomes ==
    {NetworkError}
    \cup {Response(TRUE, TRUE, b) : b \in JsonBodies}
    \cup {Response(FALSE, TRUE, b) : b \in {JsonNull, JsonObject(Str("ok"), Str("T1")), JsonObject(Str("error"), Undefined)}}
    \cup {Response(ok, FALSE, JsonNull) : ok \in BOOLEAN}

\* page names
PageNames == {"index", "gallery", "music", "auth"}
Exts(k) == [i \in 1..k |-> ".html"]
Pages == {<<>>} \cup {<<n>> \o Exts(k) : n \in PageNames, k \in 0..MaxExt}

\* the value of the 'cle' URL parameter: absent, empty, or an identifier
CleValues == {Null, Some(""), Some("alice42")}

\* ------------------------------------------------------- credential store

\* Storage.getItem: null when the key is absent
getItem(storage, key) == IF key \in DOMAIN storage THEN Some(storage[key]) ELSE Null

\* Storage.setItem: the value is stored as a string
setItem(storage, key, value) ==
    [k \in DOMAIN storage \cup {key} |-> IF k = key THEN value ELSE storage[k]]

\* Storage.removeItem
removeItem(storage, key) == [k \in DOMAIN storage \ {key} |-> storage[k]]

\* variant: only the old flag value counts as a login
isAuthenticated_sentinel(ls) == getItem(ls, AUTH_TOKEN_KEY) = Some(SENTINEL)

\* variant: the empty string is not excluded
isAuthenticated_notNull(ls) == getItem(ls, AUTH_TOKEN_KEY) # Null

isAuthenticated(ls) ==
    LET token == getItem(ls, AUTH_TOKEN_KEY)
    IN  token # Null /\ token # Some("")

\* variant: the token is not persisted
setAuthToken_forget(ls, token) == ls

setAuthToken(ls, token) == setItem(ls, AUTH_TOKEN_KEY, JsString(token))

\* variant: the token is left in place
clearAuthToken_keep(ls) == ls

clearAuthToken(ls) == removeItem(ls, AUTH_TOKEN_KEY)

\* !token for a value read from storage (null or a string)
Falsy(token) == token = Null \/ token = Some("")

\* ------------------------------------------------------- remote verifier

Returned(v) == [threw |-> FALSE, value |-> v]
Thrown == [threw |-> TRUE, value |-> JsonNull]

\* variant: response.ok is not tested
verifyTry_noOkCheck(outcome) ==
    IF outcome.net = "error" THEN Thrown
    ELSE IF ~outcome.parsed THEN Thrown
    ELSE Returned(outcome.body)

\* the try block of verifyAuthentication: fetch rejects, response.ok is false,
\* or response.json() rejects
verifyTry(outcome) ==
    IF outcome.net = "error" THEN Thrown
    ELSE IF ~outcome.ok THEN Thrown
    ELSE IF ~outcome.parsed THEN Thrown
    ELSE Returned(outcome.body)

\* verifyAuthentication: the catch turns every exception into null
verifyAuthentication(outcome) ==
    LET r == verifyTry(outcome)
    IN  IF r.threw THEN Returned(JsonNull) ELSE r

\* variant: the token of the answer is not tested
VerifiedOk_noToken(authData) == StrictEq(authData.status, "ok")

\* variant: the status of the answer is not tested
VerifiedOk_noStatus(authData) == Truthy(authData.token)

\* authData?.status === 'ok' && authData.token
VerifiedOk(authData) == StrictEq(authData.status, "ok") /\ Truthy(authData.token)

\* ------------------------------------------------------------ access gate

PUBLIC_PAGES_script == {<<"auth", ".html">>}
PUBLIC_PAGES_part000 == {<<"auth", ".html">>, <<"auth">>}
PUBLIC_PAGES(b) == IF b = "script.js" THEN PUBLIC_PAGES_script ELSE PUBLIC_PAGES_part000

\* window.location.pathname.split('/').pop() || <default>
CurrentPage(b, last) ==
    IF last # <<>> THEN last
    ELSE IF b = "script.js" THEN <<"index", ".html">> ELSE <<>>

\* String.replace('.html', ''): the first occurrence only
RECURSIVE ReplaceFirstHtml(_)
ReplaceFirstHtml(page) ==
    IF page = <<>> THEN <<>>
    ELSE IF Head(page) = ".html" THEN Tail(page)
    ELSE <<Head(page)>> \o ReplaceFirstHtml(Tail(page))

\* a navigation target: the path assigned to window.location.href and its page parameter
Href(path, page) == [path |-> path, page |-> page]

RedirectTarget_script(currentPage) == Href("/auth", Some(currentPage))

\* variant: the page parameter keeps its extension and the root is not special
RedirectTarget_part000_keepExt(currentPage) == Href("auth", Some(currentPage))

RedirectTarget_part000(currentPage) ==
    IF currentPage = <<>> \/ currentPage = <<"index", ".html">> \/ currentPage = <<"index">>
    THEN Href("auth", Null)
    ELSE Href("auth", Some(ReplaceFirstHtml(currentPage)))

RedirectTarget(b, currentPage) ==
    IF b = "script.js" THEN RedirectTarget_script(currentPage)
    ELSE RedirectTarget_part000(currentPage)

LogoutTarget(b) == IF b = "script.js" THEN Href("/auth", Null) ELSE Href("auth", Null)

\* --------------------------------------------------- decryption pipeline

\* Byte strings are sequences of chunks.  A chunk is n bytes of one kind: an IV
\* ("iv", named by iv), UTF-8 text ("utf8", the string in text), an AES-CBC
\* ciphertext ("ct": the key and IV it was made under, the plaintext bytes in
\* inner), other bytes ("raw", named by text) or a slice cut out of a chunk ("part").
NoKey == [alg |-> "none", input |-> <<>>]
Chunk(n, kind, key, iv, text, inner) ==
    [n |-> n, kind |-> kind, key |-> key, iv |-> iv, text |-> text, inner |-> inner]
RawBytes(n, name) == Chunk(n, "raw", NoKey, "", name, <<>>)
randomBytes16(iv) == Chunk(16, "iv", NoKey, iv, "", <<>>)

RECURSIVE ByteLength(_)
ByteLength(bytes) == IF bytes = <<>> THEN 0 ELSE Head(bytes).n + ByteLength(Tail(bytes))

\* ArrayBuffer.slice(0, k)
RECURSIVE SliceTo(_, _)
SliceTo(bytes, k) ==
    IF k = 0 \/ bytes = <<>> THEN <<>>
    ELSE IF Head(bytes).n <= k THEN <<Head(bytes)>> \o SliceTo(Tail(bytes), k - Head(bytes).n)
    ELSE <<[Head(bytes) EXCEPT !.n = k, !.kind = "part"]>>

\* ArrayBuffer.slice(k)
RECURSIVE SliceFrom(_, _)
SliceFrom(bytes, k) ==
    IF k = 0 \/ bytes = <<>> THEN bytes
    ELSE IF Head(bytes).n <= k THEN SliceFrom(Tail(bytes), k - Head(bytes).n)
    ELSE <<[Head(bytes) EXCEPT !.n = @ - k, !.kind = "part"]>> \o Tail(bytes)

\* the strings texts are encrypted from: a name, the empty string, a name after a
\* byte order mark (U+FEFF), a link
BOM_BOB == "<U+FEFF>Bob"
\* a leading U+FEFF removed
StripBOM(s) == IF s = BOM_BOB THEN "Bob" ELSE s

\* UTF-8 encoding of a string: Buffer.from(s, 'utf8'), TextEncoder.encode(s)
Utf8Bytes(s) == <<Chunk(IF s = "" THEN 0 ELSE 3, "utf8", NoKey, "", s, <<>>)>>

\* a SHA-256 digest, used as the 32-byte AES key
Sha256(bytes) == [alg |-> "sha256", input |-> bytes]
\* the generator side: createHash('sha256').update(token).digest(), a string is
\* hashed as its UTF-8 bytes
deriveKey(token) == Sha256(Utf8Bytes(token))
\* the browser side: crypto.subtle.digest('SHA-256', new TextEncoder().encode(token))
keyHash(token) == Sha256(Utf8Bytes(token))

\* createCipheriv('aes-256-cbc', key, iv): update + final, PKCS#7 padding: the
\* ciphertext is a whole number of 16-byte blocks, one more than the plaintext fills
AesCbcEncrypt(key, iv, plainBytes) ==
    <<Chunk(16 * ((ByteLength(plainBytes) \div 16) + 1), "ct", key, iv[1].iv, "", plainBytes)>>

Decrypted(bytes) == [threw |-> FALSE, bytes |-> bytes]
DecryptThrown == [threw |-> TRUE, bytes |-> <<>>]
GarbageBytes == <<RawBytes(1, "garbage")>>

\* variant: an IV of any length is taken and empty data decrypts to nothing
AesCbcDecrypt_lenient(key, iv, data, lucky) ==
    IF ByteLength(data) = 0 THEN Decrypted(<<>>)
    ELSE IF Len(data) = 1 /\ data[1].kind = "ct" /\ data[1].key = key
            /\ iv = <<randomBytes16(data[1].iv)>>
    THEN Decrypted(data[1].inner)
    ELSE IF lucky THEN Decrypted(GarbageBytes)
    ELSE DecryptThrown

\* crypto.subtle.decrypt({name: 'AES-CBC', iv}, key, data): OperationError for an
\* IV that is not 16 bytes, for data that is not a positive number of blocks, and
\* for bad padding; under another key or IV the padding is bad unless the last
\* block happens to end in valid padding (lucky), and then the bytes are garbage
AesCbcDecrypt(key, iv, data, lucky) ==
    IF ByteLength(iv) # 16 THEN DecryptThrown
    ELSE IF ByteLength(data) = 0 \/ ByteLength(data) % 16 # 0 THEN DecryptThrown
    ELSE IF Len(data) = 1 /\ data[1].kind = "ct" /\ data[1].key = key
            /\ iv = <<randomBytes16(data[1].iv)>>
    THEN Decrypted(data[1].inner)
    ELSE IF lucky THEN Decrypted(GarbageBytes)
    ELSE DecryptThrown

\* A string of the record format is a sequence of pieces: base64 text (of bytes),
\* a colon, or characters outside the base64 alphabet
Base64(bytes) == [t |-> "b64", bytes |-> bytes]
Colon == [t |-> "colon", bytes |-> <<>>]

\* encryptText of the generator script: base64(iv) ':' base64(ciphertext); iv is what
\* crypto.randomBytes(16) gave
encryptText(text, key, iv) ==
    <<Base64(<<randomBytes16(iv)>>), Colon,
      Base64(AesCbcEncrypt(deriveKey(key), <<randomBytes16(iv)>>, Utf8Bytes(text)))>>

\* an encrypted text record as the generator prints it for config.js
Record(key, plain) == encryptText(plain, key, "iv-" \o plain)

GROOM == "Bob"
BRIDE == "Alice"
GARBAGE == "?garbage?"
JOIN == " & "

ENCRYPTED_NAMES == [groom |-> Record(KeyToken, GROOM), bride |-> Record(KeyToken, BRIDE)]
ENCRYPTED_WHATSAPP_LINK == Record(KeyToken, "https://chat")

TextReturned(v) == [threw |-> FALSE, value |-> v]
TextThrown == [threw |-> TRUE, value |-> ""]

\* String.split(':'): the segments between the colons
RECURSIVE Split(_)
Split(str) ==
    IF \A i \in 1..Len(str) : str[i] # Colon THEN <<str>>
    ELSE LET i == CHOOSE k \in 1..Len(str) : str[k] = Colon /\ \A j \in 1..(k - 1) : str[j] # Colon
         IN  <<SubSeq(str, 1, i - 1)>> \o Split(SubSeq(str, i + 1, Len(str)))

\* base64ToUint8Array on one element of the destructured split: atob throws on
\* "undefined" (a missing second segment) and on characters that are not base64
base64ToUint8Array(parts, k) ==
    IF k > Len(parts) THEN DecryptThrown
    ELSE IF parts[k] = <<>> THEN Decrypted(<<>>)
    ELSE IF Len(parts[k]) = 1 /\ parts[k][1].t = "b64" THEN Decrypted(parts[k][1].bytes)
    ELSE DecryptThrown

\* new TextDecoder().decode(bytes): UTF-8, a leading byte order mark is dropped,
\* bytes that are not UTF-8 come out as replacement characters
TextDecoderDecode(bytes) ==
    IF bytes = <<>> THEN ""
    ELSE IF Len(bytes) = 1 /\ bytes[1].kind = "utf8" THEN StripBOM(bytes[1].text)
    ELSE GARBAGE

\* decryptText: split at ':', base64-decode IV and data, AES-CBC under
\* SHA-256(key), decode as UTF-8.  Under the right key it yields the plaintext;
\* under another key the padding check fails and it throws, unless the last block
\* happens to end in valid padding (lucky), and then it yields garbage.
\* Without crypto.subtle (cr false) the digest call throws.
decryptText(record, key, lucky, cr) ==
    LET parts == Split(record)
        iv == base64ToUint8Array(parts, 1)
        encryptedData == base64ToUint8Array(parts, 2)
        decrypted == AesCbcDecrypt(keyHash(key), iv.bytes, encryptedData.bytes, lucky)
    IN  IF iv.threw \/ encryptedData.threw THEN TextThrown
        ELSE IF ~cr THEN TextThrown
        ELSE IF decrypted.threw THEN TextThrown
        ELSE TextReturned(TextDecoderDecode(decrypted.bytes))

Markers == {"{{groom}}", "{{bride}}", "{{bride_groom}}", "{{groom_bride}}"}
\* pieces of text that contain '{{'
BracePieces == Markers \cup {"{{date}}"}

\* the replacement string as String.replace inserts it: "$&" stands for the match
Replacement(repl, match) == [i \in 1..Len(repl) |-> IF repl[i] = "$&" THEN match ELSE repl[i]]

\* variant: the regular expression has no g flag, the first match only is replaced
RECURSIVE ReplaceAll_first(_, _, _)
ReplaceAll_first(text, marker, repl) ==
    IF text = <<>> THEN <<>>
    ELSE IF Head(text) = marker THEN Replacement(repl, marker) \o Tail(text)
    ELSE <<Head(text)>> \o ReplaceAll_first(Tail(text), marker, repl)

\* String.replace(/marker/g, repl) on a text made of pieces
RECURSIVE ReplaceAll(_, _, _)
ReplaceAll(text, marker, repl) ==
    IF text = <<>> THEN <<>>
    ELSE (IF Head(text) = marker THEN Replacement(repl, marker) ELSE <<Head(text)>>)
         \o ReplaceAll(Tail(text), marker, repl)

\* variant: the two single-name markers only
ReplaceChain_noPairs(text, g, b) ==
    ReplaceAll(ReplaceAll(text, "{{groom}}", <<g>>), "{{bride}}", <<b>>)

\* the chain of four replacements applied to the title and to each text node
ReplaceChain(text, g, b) ==
    ReplaceAll(
      ReplaceAll(
        ReplaceAll(
          ReplaceAll(text, "{{groom}}", <<g>>),
          "{{bride}}", <<b>>),
        "{{bride_groom}}", <<b, JOIN, g>>),
      "{{groom_bride}}", <<g, JOIN, b>>)

Includes(text, pieces) == \E i \in 1..Len(text) : text[i] \in pieces

\* replaceNamePlaceholders on the document d with the globals g, b
replaceNamePlaceholders(d, g, b) ==
    IF g = "" \/ b = "" THEN d
    ELSE [d EXCEPT
            !.title = IF Includes(@, BracePieces) THEN ReplaceChain(@, g, b) ELSE @,
            !.body = [i \in 1..Len(@) |->
                        IF Includes(@[i], Markers) THEN ReplaceChain(@[i], g, b) ELSE @[i]]]

\* document.body.innerHTML includes one of the four markers
hasPlaceholders(d) == \E i \in 1..Len(d.body) : Includes(d.body[i], Markers)

\* the state decryptNames works on: the two globals and the document, and whether
\* the promise it returned rejected
NamesState(g, b, d) == [groomName |-> g, brideName |-> b, doc |-> d, rejected |-> FALSE]

\* the CONFIG object of config.js
Config(groom, bride, whatsapp, clientId, clientSecret) ==
    [ENCRYPTED_NAMES |-> [groom |-> groom, bride |-> bride],
     ENCRYPTED_WHATSAPP_LINK |-> whatsapp,
     ENCRYPTED_SPOTIFY |-> [clientId |-> clientId, clientSecret |-> clientSecret]]
ENCRYPTED_SPOTIFY ==
    [clientId |-> Record(KeyToken, "spotify-id"), clientSecret |-> Record(KeyToken, "spotify-secret")]
CONFIG == Config(ENCRYPTED_NAMES.groom, ENCRYPTED_NAMES.bride, ENCRYPTED_WHATSAPP_LINK,
                 ENCRYPTED_SPOTIFY.clientId, ENCRYPTED_SPOTIFY.clientSecret)

\* one call of decryptText, decryptImage or fetch: what it was made on, whether it threw
Call(fn, arg, threw) == [fn |-> fn, arg |-> arg, threw |-> threw]

\* variant: the sentinel is not tested, the token is used as a key whatever it is
decryptNamesOf_noSentinel(config, bld, token, st, lg, lb, lw, cr) ==
    IF Falsy(token) THEN st
    ELSE
      LET g == decryptText(config.ENCRYPTED_NAMES.groom, token[1], lg, cr)
          b == decryptText(config.ENCRYPTED_NAMES.bride, token[1], lb, cr)
      IN  IF g.threw \/ b.threw THEN st
          ELSE NamesState(g.value, b.value, replaceNamePlaceholders(st.doc, g.value, b.value))

\* variant: the groom's markers are replaced as soon as the groom's name is decrypted
decryptNamesOf_groomFirst(config, bld, token, st, lg, lb, lw, cr) ==
    IF Falsy(token) \/ token = Some(SENTINEL) THEN st
    ELSE
      LET g == decryptText(config.ENCRYPTED_NAMES.groom, token[1], lg, cr)
          b == decryptText(config.ENCRYPTED_NAMES.bride, token[1], lb, cr)
      IN  IF g.threw THEN st
          ELSE IF b.threw
          THEN [st EXCEPT !.groomName = g.value,
                          !.doc.title = ReplaceAll(@, "{{groom}}", <<g.value>>),
                          !.doc.body = [i \in 1..Len(@) |-> ReplaceAll(@[i], "{{groom}}", <<g.value>>)]]
          ELSE NamesState(g.value, b.value, replaceNamePlaceholders(st.doc, g.value, b.value))

\* decryptNames under a configuration, whole: token is what localStorage holds,
\* lg/lb/lw say whether a wrong-key decryption of the groom, bride and link record
\* gets past the padding check
decryptNamesOf(config, bld, token, st, lg, lb, lw, cr) ==
    IF Falsy(token) \/ token = Some(SENTINEL) THEN st
    ELSE
      LET g == decryptText(config.ENCRYPTED_NAMES.groom, token[1], lg, cr)
          b == decryptText(config.ENCRYPTED_NAMES.bride, token[1], lb, cr)
          w == decryptText(config.ENCRYPTED_WHATSAPP_LINK, token[1], lw, cr)
      IN  IF g.threw THEN st
          ELSE IF b.threw THEN [st EXCEPT !.groomName = g.value]
          ELSE
            LET d1 == replaceNamePlaceholders(st.doc, g.value, b.value)
                d2 == IF bld = "part_000" /\ ~w.threw /\ d1.hasWhatsapp
                      THEN [d1 EXCEPT !.whatsapp = Some(w.value)]
                      ELSE d1
            IN  NamesState(g.value, b.value, d2)

\* the decryptText calls that decryptNames makes, in the same cases
decryptNamesCalls(config, bld, token, lg, lb, lw, cr) ==
    IF Falsy(token) \/ token = Some(SENTINEL) THEN {}
    ELSE
      LET g == decryptText(config.ENCRYPTED_NAMES.groom, token[1], lg, cr)
          b == decryptText(config.ENCRYPTED_NAMES.bride, token[1], lb, cr)
          w == decryptText(config.ENCRYPTED_WHATSAPP_LINK, token[1], lw, cr)
      IN  {Call("decryptText", "groom", g.threw)}
          \cup (IF g.threw THEN {} ELSE {Call("decryptText", "bride", b.threw)})
          \cup (IF ~g.threw /\ ~b.threw /\ bld = "part_000"
                THEN {Call("decryptText", "whatsapp", w.threw)} ELSE {})

\* variant: no try/catch around the decryptions, a failure rejects the promise
decryptNames_noCatch(bld, token, st, lg, lb, lw, cr) ==
    IF Falsy(token) \/ token = Some(SENTINEL) THEN st
    ELSE IF decryptText(CONFIG.ENCRYPTED_NAMES.groom, token[1], lg, cr).threw
            \/ decryptText(CONFIG.ENCRYPTED_NAMES.bride, token[1], lb, cr).threw
    THEN [st EXCEPT !.rejected = TRUE]
    ELSE decryptNamesOf(CONFIG, bld, token, st, lg, lb, lw, cr)

\* decryptNames of the site: under CONFIG
decryptNames(bld, token, st, lg, lb, lw, cr) ==
    decryptNamesOf(CONFIG, bld, token, st, lg, lb, lw, cr)

\* spotifyConfig as the script creates it (the two credentials)
SpotifyConfig(clientId, clientSecret) == [clientId |-> clientId, clientSecret |-> clientSecret]

\* decryptSpotifyCredentials under a configuration, whole: sc is spotifyConfig,
\* li/ls the padding luck of the two records
decryptSpotifyCredentials(config, token, sc, li, ls, cr) ==
    IF Falsy(token) \/ token = Some(SENTINEL) THEN sc
    ELSE
      LET i == decryptText(config.ENCRYPTED_SPOTIFY.clientId, token[1], li, cr)
          c == decryptText(config.ENCRYPTED_SPOTIFY.clientSecret, token[1], ls, cr)
      IN  IF i.threw THEN sc
          ELSE IF c.threw THEN [sc EXCEPT !.clientId = i.value]
          ELSE SpotifyConfig(i.value, c.value)

\* encryptImage of the image tool: the file written is IV || ciphertext
encryptImage(imageData, token, iv) ==
    <<randomBytes16(iv)>> \o AesCbcEncrypt(deriveKey(token), <<randomBytes16(iv)>>, imageData)

\* an encrypted image file: absent on the server, shorter than the 16-byte IV, or
\* IV || ciphertext under KeyToken
ImageFiles == {"missing", "short", "good"}

PHOTO == <<RawBytes(100, "photo")>>

\* what the server holds under the path of an image file (null: 404)
ImageResource(file) ==
    IF file = "missing" THEN Null
    ELSE IF file = "short" THEN Some(<<RawBytes(7, "junk")>>)
    ELSE Some(encryptImage(PHOTO, KeyToken, "iv-photo"))

\* decryptImage on the bytes fetched: IV = first 16 bytes, ciphertext = the rest
decryptImageData(encryptedData, token, lucky) ==
    AesCbcDecrypt(keyHash(token), SliceTo(encryptedData, 16), SliceFrom(encryptedData, 16), lucky)

BlobReturned(v) == [threw |-> FALSE, value |-> v]
BlobThrown == [threw |-> TRUE, value |-> ""]

\* URL.createObjectURL(new Blob([decrypted]))
createObjectURL(bytes) == IF bytes = PHOTO THEN "blob:image" ELSE "blob:garbage"

\* what fetch(path) delivers: the resource, or nothing when the request fails
\* (net false) or the response is not ok
fetchImage(file, net) == IF net THEN ImageResource(file) ELSE Null

\* decryptImage on what the fetch delivered: split IV, derive key, decrypt, wrap as
\* blob URL
decryptImage(fetched, token, lucky, cr) ==
    IF fetched = Null THEN BlobThrown
    ELSE IF ~cr THEN BlobThrown
    ELSE LET decrypted == decryptImageData(fetched[1], token, lucky)
         IN  IF decrypted.threw THEN BlobThrown
             ELSE BlobReturned(createObjectURL(decrypted.bytes))

\* an IMG element with data-encrypted; pending: a src has been assigned and the
\* browser has yet to fire the element's load or error event
Img(file, hero) ==
    [file |-> file, hero |-> hero, src |-> "", alt |-> "", opacity |-> "css", pending |-> FALSE]

\* what loadEncryptedImage leaves: the element, and whether its promise rejected
Loaded(img) == [img |-> img, rejected |-> FALSE]

\* loadEncryptedImage before its await: the element is dimmed and the fetch is sent
loadEncryptedImageStart(bld, img) ==
    IF bld = "part_000" /\ img.hero THEN img ELSE [img EXCEPT !.opacity = "0.3"]

\* variant: no try/catch, a failed decryptImage rejects the promise
loadEncryptedImage_part000_noCatch(img, r) ==
    IF r.threw THEN [img |-> img, rejected |-> TRUE]
    ELSE Loaded([img EXCEPT !.src = r.value, !.pending = TRUE])

\* loadEncryptedImage after its await, up to the point where it returns (onload
\* comes later); r is what decryptImage gave
loadEncryptedImage_part000(img, r) ==
    IF r.threw
    THEN Loaded([img EXCEPT !.alt = "Image non disponible",
                            !.opacity = IF img.hero THEN @ ELSE "1"])
    ELSE Loaded([img EXCEPT !.src = r.value, !.pending = TRUE])

\* variant: the catch block sets the alt text only
loadEncryptedImage_script_dim(img, r) ==
    IF r.threw
    THEN Loaded([img EXCEPT !.alt = "Image non disponible"])
    ELSE Loaded([img EXCEPT !.src = r.value, !.pending = TRUE])

loadEncryptedImage_script(img, r) ==
    IF r.threw
    THEN Loaded([img EXCEPT !.alt = "Image non disponible", !.opacity = "1"])
    ELSE Loaded([img EXCEPT !.src = r.value, !.pending = TRUE])

loadEncryptedImage(bld, img, r) ==
    IF bld = "script.js" THEN loadEncryptedImage_script(img, r)
    ELSE loadEncryptedImage_part000(img, r)

\* the blob behind a URL decodes as an image
Loadable(src) == src = "blob:image"

\* the onload handler that loadEncryptedImage installs
onload_part000(img) == IF img.hero THEN img ELSE [img EXCEPT !.opacity = "1"]
onload_script(img) == [img EXCEPT !.opacity = "1"]

\* the browser is done with the src of the element: it fires load, which runs the
\* handler, or it fires error, for which no handler is installed
imageEvent(bld, img) ==
    IF ~Loadable(img.src) THEN [img EXCEPT !.pending = FALSE]
    ELSE IF bld = "script.js" THEN [onload_script(img) EXCEPT !.pending = FALSE]
    ELSE [onload_part000(img) EXCEPT !.pending = FALSE]

\* decryptAllImages up to its await of Promise.all: every element with
\* data-encrypted gets its loadEncryptedImage started
decryptAllImages(bld, token, d) ==
    IF Falsy(token) \/ token = Some(SENTINEL) THEN d
    ELSE [d EXCEPT !.images = [i \in 1..Len(@) |-> loadEncryptedImageStart(bld, @[i])]]

\* the loadEncryptedImage tasks that decryptAllImages waits for
decryptAllImagesTasks(token, d) ==
    IF Falsy(token) \/ token = Some(SENTINEL) THEN {} ELSE 1..Len(d.images)

ImageNames == <<"image1", "image2">>

\* the documents a page load is tried with
Doc(title, body, hasDoor, hasWhatsapp, images) ==
    [title |-> title, body |-> body, hasDoor |-> hasDoor, hasWhatsapp |-> hasWhatsapp,
     hasSearchInput |-> FALSE, whatsapp |-> Null, images |-> images,
     doorOpening |-> FALSE, doorHidden |-> FALSE, mainVisible |-> FALSE]

\* the static document served under a page name: the home page with the doors, the
\* gallery with its images, the music page with its search field, the login page
DocumentOf(p) ==
    IF p = <<>> \/ Head(p) = "index"
    THEN Doc(<<"{{bride_groom}}">>, << <<"Hello ", "{{groom}}">>, <<"{{groom_bride}}", "{{bride}}">> >>,
             TRUE, TRUE, <<Img("good", TRUE), Img("short", FALSE)>>)
    ELSE IF Head(p) = "gallery"
    THEN Doc(<<"Galerie">>, << <<"photos">> >>, FALSE, FALSE, <<Img("good", FALSE), Img("missing", FALSE)>>)
    ELSE IF Head(p) = "music"
    THEN [Doc(<<"Musique">>, << <<"playlist">> >>, FALSE, FALSE, <<>>) EXCEPT !.hasSearchInput = TRUE]
    ELSE Doc(<<"Connexion ", "{{date}}", "{{bride}}">>, << <<"{{date}}">> >>, FALSE, FALSE, <<>>)

\* ------------------------------------------------------------------ state

VARIABLES
    build,          \* which copy of the script the site serves
    localStorage,   \* origin-scoped persistent storage: key -> string
    sessionStorage, \* session-scoped storage: key -> string
    crypto,         \* window.crypto?.subtle is available (a secure context); fixed per origin
    page,           \* last segment of window.location.pathname
    cle,            \* the 'cle' parameter of the URL the page was loaded with
    search,         \* the visible URL still carries its query string
    doc,            \* the document: title, text nodes, images, door elements
    groomName,      \* global of the script
    brideName,      \* global of the script
    pc,             \* position of the DOMContentLoaded handler
    gate,           \* state of the access gate in this page load
    fetchOutcome,   \* what the verification request did (null before)
    authData,       \* what verifyAuthentication returned (null before)
    verifyCalls,    \* number of verifyAuthentication calls in this page load
    href,           \* navigation assigned to window.location.href (null if none)
    gateLog,        \* the calls checkAuthentication made in this page load, in order
    timers,         \* pending setTimeout callbacks
    lastOp,         \* the step taken last
    afterLogout,    \* "pending" after logout, "first" in the first page load after it
    calls,          \* the decryptText, decryptImage and fetch calls made in this page load
    imgTasks,       \* the images whose loadEncryptedImage is in flight
    spotifyConfig,  \* global of the script: the Spotify credentials
    fn              \* a function applied on its own: its inputs and its result

vars == <<build, localStorage, sessionStorage, crypto, page, cle, search, doc, groomName,
          brideName, pc, gate, fetchOutcome, authData, verifyCalls, href, gateLog, timers,
          lastOp, afterLogout, calls, imgTasks, spotifyConfig, fn>>

EmptyStorage == <<>>
EmptyDoc == Doc(<<>>, <<>>, FALSE, FALSE, <<>>)

Init ==
    /\ build \in Builds
    /\ localStorage \in {EmptyStorage} \cup {setItem(EmptyStorage, AUTH_TOKEN_KEY, t) : t \in TokenStrings}
    /\ sessionStorage = EmptyStorage
    /\ crypto \in BOOLEAN
    /\ page = <<>>
    /\ cle = Null
    /\ search = FALSE
    /\ doc = EmptyDoc
    /\ groomName = ""
    /\ brideName = ""
    /\ pc = "idle"
    /\ gate = "UNCHECKED"
    /\ fetchOutcome = Null
    /\ authData = Null
    /\ verifyCalls = 0
    /\ href = Null
    /\ gateLog = <<>>
    /\ timers = {}
    /\ lastOp = "init"
    /\ afterLogout = "no"
    /\ calls = {}
    /\ imgTasks = {}
    /\ spotifyConfig = SpotifyConfig("", "")
    /\ fn = <<>>

\* checkAuthentication, lines "if (!isAuthenticated())" to the end of the function, up
\* to the first await: redirect, or start the content decryption
StoredTokenCheck(cur, log) ==
    IF ~isAuthenticated(localStorage)
    THEN /\ href' = Some(RedirectTarget(build, cur))
         /\ gate' = "REDIRECTING"
         /\ pc' = "gateReturned"
         /\ gateLog' = log \o <<"redirect">>
    ELSE /\ href' = Null
         /\ gate' = "AUTHENTICATED"
         /\ pc' = "decryptNames"
         /\ gateLog' = log \o <<"decryptNames">>

\* variant: the URL identifier is looked at before the allowlist
checkAuthenticationStart_cleFirst(b, cr, p, c) ==
    IF ~cr THEN "ENV_FAULT"
    ELSE IF ~Falsy(c) THEN "VERIFYING"
    ELSE IF CurrentPage(b, p) \in PUBLIC_PAGES(b) THEN "PUBLIC_PASS"
    ELSE "STORED_TOKEN_CHECK"

\* variant: crypto.subtle is not tested
checkAuthenticationStart_noCrypto(b, cr, p, c) ==
    IF CurrentPage(b, p) \in PUBLIC_PAGES(b) THEN "PUBLIC_PASS"
    ELSE IF ~Falsy(c) THEN "VERIFYING"
    ELSE "STORED_TOKEN_CHECK"

\* checkAuthentication from its entry to the "if (cle)" test: which of its branches
\* a page load takes, in the order the code tests them
checkAuthenticationStart(b, cr, p, c) ==
    IF ~cr THEN "ENV_FAULT"
    ELSE IF CurrentPage(b, p) \in PUBLIC_PAGES(b) THEN "PUBLIC_PASS"
    ELSE IF ~Falsy(c) THEN "VERIFYING"
    ELSE "STORED_TOKEN_CHECK"

\* The browser loads a page and fires DOMContentLoaded: the handler calls
\* checkAuthentication, which runs to its first await or to its return.
DOMContentLoaded(p, c) ==
    /\ page' = p
    /\ cle' = c
    /\ search' = (c # Null)
    /\ doc' = DocumentOf(p)
    /\ groomName' = ""
    /\ brideName' = ""
    /\ fetchOutcome' = Null
    /\ authData' = Null
    /\ timers' = {}
    /\ lastOp' = "DOMContentLoaded"
    /\ afterLogout' = IF afterLogout = "pending" THEN "first" ELSE "no"
    /\ IF checkAuthenticationStart(build, crypto, p, c) \in {"ENV_FAULT", "PUBLIC_PASS"}
       THEN /\ gate' = checkAuthenticationStart(build, crypto, p, c)
            /\ pc' = "gateReturned"
            /\ href' = Null
            /\ gateLog' = <<>>
            /\ verifyCalls' = 0
       ELSE IF checkAuthenticationStart(build, crypto, p, c) = "VERIFYING"
       THEN /\ gate' = "VERIFYING"
            /\ pc' = "verifying"
            /\ href' = Null
            /\ gateLog' = <<"verifyAuthentication">>
            /\ verifyCalls' = 1
       ELSE /\ StoredTokenCheck(CurrentPage(build, p), <<>>)
            /\ verifyCalls' = 0
    /\ calls' = {}
    /\ imgTasks' = {}
    /\ spotifyConfig' = SpotifyConfig("", "")
    /\ UNCHANGED <<build, localStorage, sessionStorage, crypto, fn>>

\* variant: the history entry keeps the URL as it is
replaceState_keep(query) == query

\* window.history.replaceState({}, document.title, window.location.pathname): the
\* visible URL becomes the bare pathname, its query string is gone
replaceState(query) == FALSE

\* verifyAuthentication settles and checkAuthentication resumes after its first await
VerifyReturns(outcome) ==
    /\ pc = "verifying"
    /\ LET r == verifyAuthentication(outcome)
       IN  /\ fetchOutcome' = Some(outcome)
           /\ lastOp' = "VerifyReturns"
           /\ IF r.threw
              THEN /\ pc' = "rejected"
                   /\ authData' = Null
                   /\ UNCHANGED <<localStorage, search, href, gate, gateLog>>
              ELSE /\ authData' = Some(r.value)
                   /\ IF VerifiedOk(r.value)
                      THEN /\ localStorage' = setAuthToken(localStorage, r.value.token)
                           /\ search' = replaceState(search)
                           /\ gate' = "AUTHENTICATED"
                           /\ pc' = "decryptNames"
                           /\ href' = Null
                           /\ gateLog' = gateLog \o <<"setAuthToken", "replaceState", "decryptNames">>
                      ELSE /\ StoredTokenCheck(CurrentPage(build, page), gateLog)
                           /\ UNCHANGED <<localStorage, search>>
    /\ UNCHANGED <<build, sessionStorage, crypto, page, cle, doc, groomName, brideName,
                   verifyCalls, timers, afterLogout, calls, imgTasks, spotifyConfig, fn>>

\* the decryptNames call of checkAuthentication completes; decryptAllImages is
\* called and runs to its await: the image tasks are started
GateDecryptNames(lg, lb, lw) ==
    /\ pc = "decryptNames"
    /\ LET token == getItem(localStorage, AUTH_TOKEN_KEY)
           st == decryptNames(build, token, NamesState(groomName, brideName, doc), lg, lb, lw, crypto)
       IN  /\ groomName' = st.groomName
           /\ brideName' = st.brideName
           /\ lastOp' = "GateDecryptNames"
           /\ IF st.rejected
              THEN /\ doc' = st.doc
                   /\ pc' = "rejected"
                   /\ calls' = calls \cup decryptNamesCalls(CONFIG, build, token, lg, lb, lw, crypto)
                   /\ UNCHANGED <<gateLog, imgTasks>>
              ELSE /\ doc' = decryptAllImages(build, token, st.doc)
                   /\ imgTasks' = decryptAllImagesTasks(token, st.doc)
                   /\ calls' = calls \cup decryptNamesCalls(CONFIG, build, token, lg, lb, lw, crypto)
                                 \cup {Call("fetch", ImageNames[i], FALSE) :
                                         i \in decryptAllImagesTasks(token, st.doc)}
                   /\ pc' = "decryptAllImages"
                   /\ gateLog' = gateLog \o <<"decryptAllImages">>
    /\ UNCHANGED <<build, localStorage, sessionStorage, crypto, page, cle, search, gate,
                   fetchOutcome, authData, verifyCalls, href, timers, afterLogout, spotifyConfig, fn>>

\* one loadEncryptedImage task settles: the fetch delivered (net) or failed, the
\* decryption went as lucky says
ImageSettles(i, net, lucky) ==
    /\ pc = "decryptAllImages"
    /\ i \in imgTasks
    /\ LET token == getItem(localStorage, AUTH_TOKEN_KEY)
           r == decryptImage(fetchImage(doc.images[i].file, net), token[1], lucky, crypto)
           l == loadEncryptedImage(build, doc.images[i], r)
       IN  /\ doc' = [doc EXCEPT !.images[i] = l.img]
           /\ calls' = calls \cup {Call("decryptImage", ImageNames[i], r.threw)}
           /\ pc' = IF l.rejected THEN "rejected" ELSE pc
    /\ imgTasks' = imgTasks \ {i}
    /\ lastOp' = "ImageSettles"
    /\ UNCHANGED <<build, localStorage, sessionStorage, crypto, page, cle, search, groomName,
                   brideName, gate, fetchOutcome, authData, verifyCalls, href, gateLog, timers,
                   afterLogout, spotifyConfig, fn>>

\* the load or error event of an element whose src was assigned
ImageEvent(i) ==
    /\ pc # "idle"
    /\ href = Null
    /\ i \in 1..Len(doc.images)
    /\ doc.images[i].pending
    /\ doc' = [doc EXCEPT !.images[i] = imageEvent(build, @)]
    /\ lastOp' = "ImageEvent"
    /\ UNCHANGED <<build, localStorage, sessionStorage, crypto, page, cle, search, groomName,
                   brideName, pc, gate, fetchOutcome, authData, verifyCalls, href, gateLog,
                   timers, afterLogout, calls, imgTasks, spotifyConfig, fn>>

\* variant: Promise.all is not awaited
GateDecryptAllImages_noAwait ==
    /\ pc = "decryptAllImages"
    /\ timers' = timers \cup {"openDoors"}
    /\ pc' = "gateReturned"
    /\ gateLog' = gateLog \o <<"setTimeout(openDoors)">>
    /\ lastOp' = "GateDecryptAllImages"
    /\ UNCHANGED <<build, localStorage, sessionStorage, crypto, page, cle, search, doc,
                   groomName, brideName, gate, fetchOutcome, authData, verifyCalls, href,
                   afterLogout, calls, imgTasks, spotifyConfig, fn>>

\* Promise.all settles once every task has; decryptAllImages returns and
\* checkAuthentication schedules openDoors and returns
GateDecryptAllImages ==
    /\ pc = "decryptAllImages"
    /\ imgTasks = {}
    /\ timers' = timers \cup {"openDoors"}
    /\ pc' = "gateReturned"
    /\ gateLog' = gateLog \o <<"setTimeout(openDoors)">>
    /\ lastOp' = "GateDecryptAllImages"
    /\ UNCHANGED <<build, localStorage, sessionStorage, crypto, page, cle, search, doc,
                   groomName, brideName, gate, fetchOutcome, authData, verifyCalls, href,
                   afterLogout, calls, imgTasks, spotifyConfig, fn>>

\* variant: the session flag is not looked at
initDoorAnimation_noSkip(d, ss) == d

\* initDoorAnimation
initDoorAnimation(d, ss) ==
    IF ~d.hasDoor THEN d
    ELSE IF getItem(ss, DOOR_SEEN_KEY) # Null
    THEN [d EXCEPT !.doorHidden = TRUE, !.mainVisible = TRUE]
    ELSE d

\* initMusicPage up to its listeners (part_000 only): on the page with the search
\* field the Spotify credentials are decrypted; the decryptText calls it makes
initMusicPageCalls(bld, d, token, li, ls, cr) ==
    IF bld # "part_000" \/ ~d.hasSearchInput \/ Falsy(token) \/ token = Some(SENTINEL) THEN {}
    ELSE {Call("decryptText", "clientId", decryptText(CONFIG.ENCRYPTED_SPOTIFY.clientId, token[1], li, cr).threw)}
         \cup (IF decryptText(CONFIG.ENCRYPTED_SPOTIFY.clientId, token[1], li, cr).threw THEN {}
               ELSE {Call("decryptText", "clientSecret",
                          decryptText(CONFIG.ENCRYPTED_SPOTIFY.clientSecret, token[1], ls, cr).threw)})
initMusicPage(bld, d, token, sc, li, ls, cr) ==
    IF bld # "part_000" \/ ~d.hasSearchInput THEN sc
    ELSE decryptSpotifyCredentials(CONFIG, token, sc, li, ls, cr)

\* the rest of the DOMContentLoaded handler after "await checkAuthentication()": the
\* 1000 ms timer is set, then the init functions run
HandlerTail(li, ls) ==
    /\ pc = "gateReturned"
    /\ timers' = timers \cup {"recheck"}
    /\ doc' = initDoorAnimation(doc, sessionStorage)
    /\ spotifyConfig' = initMusicPage(build, doc, getItem(localStorage, AUTH_TOKEN_KEY),
                                      spotifyConfig, li, ls, crypto)
    /\ calls' = calls \cup initMusicPageCalls(build, doc, getItem(localStorage, AUTH_TOKEN_KEY),
                                              li, ls, crypto)
    /\ pc' = "loaded"
    /\ lastOp' = "HandlerTail"
    /\ UNCHANGED <<build, localStorage, sessionStorage, crypto, page, cle, search, groomName,
                   brideName, gate, fetchOutcome, authData, verifyCalls, href, gateLog,
                   afterLogout, imgTasks, fn>>

\* the 1000 ms timer of the handler: decrypt the names again if markers are left
RecheckTimer(lg, lb, lw) ==
    /\ pc = "loaded"
    /\ href = Null
    /\ "recheck" \in timers
    /\ timers' = timers \ {"recheck"}
    /\ LET token == getItem(localStorage, AUTH_TOKEN_KEY)
           st == IF ~Falsy(token) /\ token # Some(SENTINEL) /\ hasPlaceholders(doc)
                 THEN decryptNames(build, token, NamesState(groomName, brideName, doc), lg, lb, lw, crypto)
                 ELSE NamesState(groomName, brideName, doc)
       IN  /\ groomName' = st.groomName
           /\ brideName' = st.brideName
           /\ doc' = st.doc
           /\ calls' = IF ~Falsy(token) /\ token # Some(SENTINEL) /\ hasPlaceholders(doc)
                       THEN calls \cup decryptNamesCalls(CONFIG, build, token, lg, lb, lw, crypto)
                       ELSE calls
    /\ lastOp' = "RecheckTimer"
    /\ UNCHANGED <<build, localStorage, sessionStorage, crypto, page, cle, search, pc, gate,
                   fetchOutcome, authData, verifyCalls, href, gateLog, afterLogout, imgTasks, spotifyConfig, fn>>

\* the 1500 ms timer set by checkAuthentication; it runs after the 1000 ms timer
openDoors ==
    /\ pc = "loaded"
    /\ href = Null
    /\ "openDoors" \in timers
    /\ "recheck" \notin timers
    /\ IF doc.hasDoor
       THEN /\ doc' = [doc EXCEPT !.doorOpening = TRUE, !.mainVisible = TRUE]
            /\ sessionStorage' = setItem(sessionStorage, DOOR_SEEN_KEY, "true")
            /\ timers' = (timers \ {"openDoors"}) \cup {"hideDoor"}
       ELSE /\ timers' = timers \ {"openDoors"}
            /\ UNCHANGED <<doc, sessionStorage>>
    /\ lastOp' = "openDoors"
    /\ UNCHANGED <<build, localStorage, crypto, page, cle, search, groomName, brideName, pc,
                   gate, fetchOutcome, authData, verifyCalls, href, gateLog, afterLogout,
                   calls, imgTasks, spotifyConfig, fn>>

\* the 2000 ms timer set by openDoors
HideDoor ==
    /\ pc = "loaded"
    /\ href = Null
    /\ "hideDoor" \in timers
    /\ timers' = timers \ {"hideDoor"}
    /\ doc' = [doc EXCEPT !.doorHidden = TRUE]
    /\ lastOp' = "HideDoor"
    /\ UNCHANGED <<build, localStorage, sessionStorage, crypto, page, cle, search, groomName,
                   brideName, pc, gate, fetchOutcome, authData, verifyCalls, href, gateLog,
                   afterLogout, calls, imgTasks, spotifyConfig, fn>>

\* window.logout(), callable while a document is loaded; the navigation it starts
\* abandons whatever the document was waiting for
logout ==
    /\ pc # "idle"
    /\ localStorage' = clearAuthToken(localStorage)
    /\ href' = Some(LogoutTarget(build))
    /\ pc' = "idle"
    /\ timers' = {}
    /\ lastOp' = "logout"
    /\ afterLogout' = "pending"
    /\ imgTasks' = {}
    /\ UNCHANGED <<build, sessionStorage, crypto, page, cle, search, doc, groomName,
                   brideName, gate, fetchOutcome, authData, verifyCalls, gateLog, calls, spotifyConfig, fn>>

Next ==
    \/ \E p \in Pages, c \in CleValues : DOMContentLoaded(p, c)
    \/ \E o \in FetchOutcomes : VerifyReturns(o)
    \/ \E lg, lb, lw \in BOOLEAN : GateDecryptNames(lg, lb, lw)
    \/ \E i \in imgTasks, net, lucky \in BOOLEAN : ImageSettles(i, net, lucky)
    \/ \E i \in 1..Len(doc.images) : ImageEvent(i)
    \/ GateDecryptAllImages
    \/ \E li, ls \in BOOLEAN : HandlerTail(li, ls)
    \/ \E lg, lb, lw \in BOOLEAN : RecheckTimer(lg, lb, lw)
    \/ openDoors
    \/ HideDoor
    \/ logout

Spec == Init /\ [][Next]_vars

\* ------------------------------------------- functions applied on their own

\* the variables of the page load, for specifications in which no page is loaded
loadVars == <<sessionStorage, page, cle, search, pc, gate, fetchOutcome, authData, verifyCalls,
              href, gateLog, timers, lastOp, afterLogout, imgTasks, spotifyConfig>>
NoPageLoad ==
    /\ sessionStorage = EmptyStorage
    /\ page = <<>>
    /\ cle = Null
    /\ search = FALSE
    /\ pc = "idle"
    /\ gate = "UNCHECKED"
    /\ fetchOutcome = Null
    /\ authData = Null
    /\ verifyCalls = 0
    /\ href = Null
    /\ gateLog = <<>>
    /\ timers = {}
    /\ lastOp = "init"
    /\ afterLogout = "no"
    /\ imgTasks = {}
    /\ spotifyConfig = SpotifyConfig("", "")

\* -- replaceNamePlaceholders over names and texts

MaxTextLen == 2
MaxApplications == 2

\* what a title or a text node is made of
TextPieces == {"Hello ", "{{date}}"} \cup Markers
TextsTried == UNION {[1..n -> TextPieces] : n \in 0..MaxTextLen}
\* the values of groomName and brideName: unset, a name, a name that is a marker,
\* a name that is a replacement pattern
NamesTried == {"", GROOM, BRIDE, "{{groom_bride}}", "{{bride}}", "$&"}

InitReplace ==
    /\ NoPageLoad
    /\ build \in Builds
    /\ localStorage = EmptyStorage
    /\ crypto = TRUE
    /\ calls = {}
    /\ groomName \in NamesTried
    /\ brideName \in NamesTried
    /\ \E t \in TextsTried :
          /\ doc = Doc(t, <<t>>, FALSE, FALSE, <<>>)
          /\ fn = [applied |-> 0, input |-> doc, once |-> doc]

\* replaceNamePlaceholders is called on the document as it stands
ReplaceNames ==
    /\ fn.applied < MaxApplications
    /\ doc' = replaceNamePlaceholders(doc, groomName, brideName)
    /\ fn' = [fn EXCEPT !.applied = @ + 1, !.once = IF fn.applied = 0 THEN doc' ELSE @]
    /\ UNCHANGED <<build, localStorage, crypto, groomName, brideName, calls, loadVars>>

NextReplace == ReplaceNames

SpecReplace == InitReplace /\ [][NextReplace]_vars

\* -- decryptNames and decryptSpotifyCredentials over the configurations of config.js

\* a record cut off after its colon: the data part is empty
TruncatedRecord == <<Base64(<<randomBytes16("iv-cut")>>), Colon>>
\* the values a field of config.js is tried with: as generated, or cut off
RecordsTried(plain) == {Record(KeyToken, plain), TruncatedRecord}
ConfigsTried ==
    {Config(g, b, w, i, c) :
        g \in RecordsTried(GROOM), b \in RecordsTried(BRIDE), w \in RecordsTried("https://chat"),
        i \in RecordsTried("spotify-id"), c \in RecordsTried("spotify-secret")}

InitNames ==
    /\ NoPageLoad
    /\ build \in Builds
    /\ localStorage \in {setItem(EmptyStorage, AUTH_TOKEN_KEY, t) : t \in {KeyToken, "T2"}}
    /\ crypto = TRUE
    /\ doc = DocumentOf(<<"index">>)
    /\ groomName = ""
    /\ brideName = ""
    /\ calls = {}
    /\ fn \in [config : ConfigsTried, spotifyConfig : {SpotifyConfig("", "")}, done : {{}}]

\* decryptNames is called (by the gate, by the handler's timer or by forceReplaceNames)
NamesCall(lg, lb, lw) ==
    /\ "decryptNames" \notin fn.done
    /\ LET token == getItem(localStorage, AUTH_TOKEN_KEY)
           st == decryptNamesOf(fn.config, build, token, NamesState(groomName, brideName, doc),
                                lg, lb, lw, crypto)
       IN  /\ groomName' = st.groomName
           /\ brideName' = st.brideName
           /\ doc' = st.doc
           /\ calls' = calls \cup decryptNamesCalls(fn.config, build, token, lg, lb, lw, crypto)
    /\ fn' = [fn EXCEPT !.done = @ \cup {"decryptNames"}]
    /\ UNCHANGED <<build, localStorage, crypto, loadVars>>

\* initMusicPage calls decryptSpotifyCredentials (part_000 only)
SpotifyCall(li, ls) ==
    /\ build = "part_000"
    /\ "decryptSpotifyCredentials" \notin fn.done
    /\ fn' = [fn EXCEPT
                !.spotifyConfig = decryptSpotifyCredentials(fn.config, getItem(localStorage, AUTH_TOKEN_KEY),
                                                            @, li, ls, crypto),
                !.done = @ \cup {"decryptSpotifyCredentials"}]
    /\ UNCHANGED <<build, localStorage, crypto, doc, groomName, brideName, calls, loadVars>>

NextNames ==
    \/ \E lg, lb, lw \in BOOLEAN : NamesCall(lg, lb, lw)
    \/ \E li, ls \in BOOLEAN : SpotifyCall(li, ls)

SpecNames == InitNames /\ [][NextNames]_vars

\* -- the generator scripts and the browser: encrypt, then decrypt

PlaintextsTried == {"", GROOM, BOM_BOB, "https://chat"}
TokensTried == {KeyToken, "T2", "7"}
IvsTried == {"iv1", "iv2"}
\* an image file: empty, one block long, longer
ImagesTried == {<<>>, <<RawBytes(16, "pixel")>>, PHOTO}

InitCrypto ==
    /\ NoPageLoad
    /\ build \in Builds
    /\ localStorage = EmptyStorage
    /\ crypto = TRUE
    /\ calls = {}
    /\ groomName = ""
    /\ brideName = ""
    /\ doc = EmptyDoc
    /\ fn \in [text : PlaintextsTried, image : ImagesTried, token : TokensTried, iv : IvsTried,
               record : {Null}, file : {Null}, textOut : {Null}, imageOut : {Null}]

\* node encrypt-textes.js: the record is generated
EncryptText ==
    /\ fn.record = Null
    /\ fn' = [fn EXCEPT !.record = Some(encryptText(fn.text, fn.token, fn.iv))]
    /\ UNCHANGED <<build, localStorage, crypto, doc, groomName, brideName, calls, loadVars>>

\* the browser decrypts the record with the same token
DecryptText(lucky) ==
    /\ fn.record # Null
    /\ fn.textOut = Null
    /\ fn' = [fn EXCEPT !.textOut = Some(decryptText(fn.record[1], fn.token, lucky, crypto))]
    /\ UNCHANGED <<build, localStorage, crypto, doc, groomName, brideName, calls, loadVars>>

\* the image tool writes the encrypted file
EncryptImage ==
    /\ fn.file = Null
    /\ fn' = [fn EXCEPT !.file = Some(encryptImage(fn.image, fn.token, fn.iv))]
    /\ UNCHANGED <<build, localStorage, crypto, doc, groomName, brideName, calls, loadVars>>

\* the browser decrypts the file with the same token
DecryptImage(lucky) ==
    /\ fn.file # Null
    /\ fn.imageOut = Null
    /\ fn' = [fn EXCEPT !.imageOut = Some(decryptImageData(fn.file[1], fn.token, lucky))]
    /\ UNCHANGED <<build, localStorage, crypto, doc, groomName, brideName, calls, loadVars>>

NextCrypto ==
    \/ EncryptText
    \/ \E lucky \in BOOLEAN : DecryptText(lucky)
    \/ EncryptImage
    \/ \E lucky \in BOOLEAN : DecryptImage(lucky)

SpecCrypto == InitCrypto /\ [][NextCrypto]_vars

\* -- decryptText over strings that are not records

\* the number of segments a string is built from
MaxSegments == 3

\* characters outside the base64 alphabet
NotBase64 == [t |-> "other", bytes |-> <<>>]
\* what stands between two colons: nothing, the IV of a record, its ciphertext, or
\* characters that are not base64
SegmentsTried(plain) ==
    {<<>>, <<Record(KeyToken, plain)[1]>>, <<Record(KeyToken, plain)[3]>>, <<NotBase64>>}
\* Array.join(':')
RECURSIVE JoinSegments(_)
JoinSegments(segs) ==
    IF Len(segs) = 1 THEN segs[1]
    ELSE segs[1] \o <<Colon>> \o JoinSegments(Tail(segs))
StringsTried ==
    UNION {{JoinSegments(segs) : segs \in [1..k -> SegmentsTried(plain)]} :
              k \in 1..MaxSegments, plain \in {GROOM, BRIDE}}

InitRecords ==
    /\ NoPageLoad
    /\ build \in Builds
    /\ localStorage = EmptyStorage
    /\ crypto = TRUE
    /\ calls = {}
    /\ groomName = ""
    /\ brideName = ""
    /\ doc = EmptyDoc
    /\ fn \in [record : StringsTried, token : {KeyToken, "T2"}, textOut : {Null}]

\* decryptText is called with the string
DecryptRecord(lucky) ==
    /\ fn.textOut = Null
    /\ fn' = [fn EXCEPT !.textOut = Some(decryptText(fn.record, fn.token, lucky, crypto))]
    /\ UNCHANGED <<build, localStorage, crypto, doc, groomName, brideName, calls, loadVars>>

NextRecords == \E lucky \in BOOLEAN : DecryptRecord(lucky)

SpecRecords == InitRecords /\ [][NextRecords]_vars

\* -- the redirect script over pathnames

\* the number of '/'-separated segments of a pathname
MaxDepth == 2
\* the number of '.html' a segment ends in
MaxHtml == 2

RedirectScripts == {"redirect.js", "part_001"}

\* window.location: the pathname as its segments (each one follows a '/', and is a
\* page name in pieces), the query string and the fragment
Location(pathname, query, hash) == [pathname |-> pathname, search |-> query, hash |-> hash]
LastSegment(pathname) == pathname[Len(pathname)]
\* pathname.endsWith('.html')
EndsWithHtml(pathname) ==
    LastSegment(pathname) # <<>> /\ LastSegment(pathname)[Len(LastSegment(pathname))] = ".html"
\* pathname.replace(/\.html$/, '')
StripHtml(pathname) ==
    [pathname EXCEPT ![Len(pathname)] = SubSeq(@, 1, Len(@) - 1)]
\* pathname.replace(/\/index(\.html)?$/, '/')
StripIndex(pathname) == [pathname EXCEPT ![Len(pathname)] = <<>>]

\* variant: the query string is not appended
redirect_js_noSearch(loc) ==
    IF LastSegment(loc.pathname) \in {<<"index", ".html">>, <<"index">>}
    THEN Some(Location(StripIndex(loc.pathname), "", loc.hash))
    ELSE IF EndsWithHtml(loc.pathname)
    THEN Some(Location(StripHtml(loc.pathname), "", loc.hash))
    ELSE Null

\* redirect.js: the URL handed to window.location.replace, null if none
redirect_js(loc) ==
    IF LastSegment(loc.pathname) \in {<<"index", ".html">>, <<"index">>}
    THEN Some(Location(StripIndex(loc.pathname), loc.search, loc.hash))
    ELSE IF EndsWithHtml(loc.pathname)
    THEN Some(Location(StripHtml(loc.pathname), loc.search, loc.hash))
    ELSE Null

\* the other copy of the script: /index.html is left alone
redirect_part001(loc) ==
    IF EndsWithHtml(loc.pathname) /\ LastSegment(loc.pathname) # <<"index", ".html">>
    THEN Some(Location(StripHtml(loc.pathname), loc.search, loc.hash))
    ELSE Null

redirect(script, loc) == IF script = "redirect.js" THEN redirect_js(loc) ELSE redirect_part001(loc)

\* a segment: empty (a trailing '/'), or a name followed by up to MaxHtml '.html'
SegmentsOfPath == {<<>>} \cup {<<n>> \o Exts(k) : n \in {"index", "gallery"}, k \in 0..MaxHtml}
PathnamesTried == UNION {[1..k -> SegmentsOfPath] : k \in 1..MaxDepth}
QueriesTried == {"", "?page=gallery"}
HashesTried == {"", "#rsvp"}

InitRedirect ==
    /\ NoPageLoad
    /\ build \in Builds
    /\ localStorage = EmptyStorage
    /\ crypto = TRUE
    /\ calls = {}
    /\ groomName = ""
    /\ brideName = ""
    /\ doc = EmptyDoc
    /\ fn \in [script : RedirectScripts,
               location : {Location(p, q, h) : p \in PathnamesTried, q \in QueriesTried, h \in HashesTried},
               redirects : {0}]

\* the page under the location is loaded and its redirect script replaces the location
RedirectLoad ==
    /\ redirect(fn.script, fn.location) # Null
    /\ fn' = [fn EXCEPT !.location = redirect(fn.script, fn.location)[1], !.redirects = @ + 1]
    /\ UNCHANGED <<build, localStorage, crypto, doc, groomName, brideName, calls, loadVars>>

NextRedirect == RedirectLoad

SpecRedirect == InitRedirect /\ [][NextRedirect]_vars

\* -- the gallery carousel (part_000)

\* the number of .gallery-item elements in the track
MaxItems == 6

MOBILE_WIDTH == 768
swipeThreshold == 50

Max(a, b) == IF a >= b THEN a ELSE b
Min(a, b) == IF a <= b THEN a ELSE b
Abs(a) == IF a >= 0 THEN a ELSE 0 - a

\* getItemsPerView
getItemsPerView(innerWidth) == IF innerWidth <= MOBILE_WIDTH THEN 1 ELSE 3

\* getMaxIndex
getMaxIndex(c) == Max(0, c.totalItems - c.itemsPerView)

\* createDots: one dot per index from 0 to maxIndex, then updateDots
createDots(c) == [c EXCEPT !.dots = getMaxIndex(c) + 1, !.activeDot = c.currentIndex]

\* updateCarousel: the track is shifted by currentIndex items and the dot of that
\* index is made active; without items, items[0].offsetWidth throws before that
updateCarousel(c) ==
    IF c.totalItems = 0 THEN c
    ELSE [c EXCEPT !.offset = c.currentIndex, !.activeDot = c.currentIndex]

\* goToSlide
goToSlide(c, index) ==
    updateCarousel([c EXCEPT !.currentIndex = Max(0, Min(index, getMaxIndex(c)))])

\* variant: no wrap to the start
nextSlide_noWrap(c) == updateCarousel([c EXCEPT !.currentIndex = @ + 1])

\* nextSlide
nextSlide(c) ==
    updateCarousel([c EXCEPT !.currentIndex = IF @ < getMaxIndex(c) THEN @ + 1 ELSE 0])

\* prevSlide
prevSlide(c) ==
    updateCarousel([c EXCEPT !.currentIndex = IF @ > 0 THEN @ - 1 ELSE getMaxIndex(c)])

\* handleSwipe
handleSwipe(c) ==
    LET diff == c.touchStartX - c.touchEndX
    IN  IF Abs(diff) > swipeThreshold
        THEN (IF diff > 0 THEN nextSlide(c) ELSE prevSlide(c))
        ELSE c

\* the callback of the resize timer
resizeCallback(c) ==
    IF getItemsPerView(c.innerWidth) # c.itemsPerView
    THEN updateCarousel(createDots([c EXCEPT !.itemsPerView = getItemsPerView(c.innerWidth),
                                             !.currentIndex = 0]))
    ELSE updateCarousel(c)

\* initGalleryCarousel on a page with the carousel elements, n items and a window
\* of width w
initGalleryCarousel(n, w) ==
    updateCarousel(createDots(
        [totalItems |-> n, innerWidth |-> w, itemsPerView |-> getItemsPerView(w),
         currentIndex |-> 0, touchStartX |-> 0, touchEndX |-> 0, resizeTimeout |-> FALSE,
         dots |-> 0, activeDot |-> 0, offset |-> 0, event |-> "init"]))

WidthsTried == {375, 768, 769, 1280}
TouchXsTried == {0, 50, 51, 200}
KeysTried == {"ArrowRight", "ArrowLeft", "Enter"}
SlidesTried == (0 - 2)..(MaxItems + 1)

InitCarousel ==
    /\ NoPageLoad
    /\ build = "part_000"
    /\ localStorage = EmptyStorage
    /\ crypto = TRUE
    /\ calls = {}
    /\ groomName = ""
    /\ brideName = ""
    /\ doc = EmptyDoc
    /\ fn \in {initGalleryCarousel(n, w) : n \in 0..MaxItems, w \in WidthsTried}

CarouselStep(c, event) ==
    /\ fn' = [c EXCEPT !.event = event]
    /\ UNCHANGED <<build, localStorage, crypto, doc, groomName, brideName, calls, loadVars>>

\* click on the next chevron
ClickNext == CarouselStep(nextSlide(fn), "nextSlide")
\* click on the previous chevron
ClickPrev == CarouselStep(prevSlide(fn), "prevSlide")
\* click on a dot; goToSlide is also tried with indices that no dot carries
ClickDot(i) == CarouselStep(goToSlide(fn, i), "goToSlide")
TouchStart(x) == CarouselStep([fn EXCEPT !.touchStartX = x], "touchstart")
TouchEnd(x) == CarouselStep(handleSwipe([fn EXCEPT !.touchEndX = x]), "touchend")
KeyDown(key) ==
    CarouselStep(IF key = "ArrowRight" THEN nextSlide(fn)
                 ELSE IF key = "ArrowLeft" THEN prevSlide(fn)
                 ELSE fn,
                 key)
\* the window is resized to width w: the timer is set anew
Resize(w) == CarouselStep([fn EXCEPT !.innerWidth = w, !.resizeTimeout = TRUE], "resize")
\* 250 ms after the last resize event
ResizeTimer ==
    /\ fn.resizeTimeout
    /\ CarouselStep(resizeCallback([fn EXCEPT !.resizeTimeout = FALSE]), "resizeTimer")

NextCarousel ==
    \/ ClickNext
    \/ ClickPrev
    \/ \E i \in SlidesTried : ClickDot(i)
    \/ \E x \in TouchXsTried : TouchStart(x)
    \/ \E x \in TouchXsTried : TouchEnd(x)
    \/ \E key \in KeysTried : KeyDown(key)
    \/ \E w \in WidthsTried : Resize(w)
    \/ ResizeTimer

SpecCarousel == InitCarousel /\ [][NextCarousel]_vars

\* ----------------------------------------------------------- properties

\* a token is present under AUTH_TOKEN_KEY and is not the empty string
TokenPresent == AUTH_TOKEN_KEY \in DOMAIN localStorage /\ localStorage[AUTH_TOKEN_KEY] # ""
\* the URL the page was loaded with carries a non-empty identifier
HasIdentifier == cle # Null /\ cle # Some("")
Cur == CurrentPage(build, page)
OnPublicPage == Cur \in PUBLIC_PAGES(build)
IsRootPage == page \in {<<>>, <<"index">>, <<"index", ".html">>}
\* checkAuthentication has returned in the current page load
GateEnded == pc \in {"gateReturned", "loaded"}
\* decryptNames of the gate has completed in the current page load
NamesDone == pc \in {"decryptAllImages", "gateReturned", "loaded"}
\* a page name without its last ".html"
WithoutExt(pg) ==
    IF pg # <<>> /\ pg[Len(pg)] = ".html" THEN SubSeq(pg, 1, Len(pg) - 1) ELSE pg
IsPrefix(a, b) == Len(a) <= Len(b) /\ a = SubSeq(b, 1, Len(a))
ToLogin == href # Null /\ href[1].path \in {"auth", "/auth"}
\* the gate left the content alone: nothing decrypted, no reveal scheduled
NoDecryptionNoReveal ==
    /\ \A i \in 1..Len(gateLog) :
          gateLog[i] \notin {"decryptNames", "decryptAllImages", "setTimeout(openDoors)"}
    /\ "openDoors" \notin timers
    /\ groomName = "" /\ brideName = ""
    /\ doc.title = DocumentOf(page).title
    /\ doc.body = DocumentOf(page).body
    /\ doc.images = DocumentOf(page).images
\* the gate did nothing at all
NoGateEffects ==
    /\ verifyCalls = 0 /\ fetchOutcome = Null /\ authData = Null
    /\ href = Null /\ gateLog = <<>>
    /\ "openDoors" \notin timers
    /\ pc = "gateReturned" => doc = DocumentOf(page) /\ groomName = "" /\ brideName = ""

C1_Case == GateEnded /\ crypto /\ ~OnPublicPage /\ ~HasIdentifier /\ ~TokenPresent

\* C1 as stated: with crypto, a non-public page, no identifier and no stored token,
\* the gate redirects to the login page with page=<current page> for every such
\* page, and it decrypts nothing and schedules no reveal.
C1_AlwaysCarriesPage ==
    C1_Case =>
        /\ gate = "REDIRECTING"
        /\ ToLogin
        /\ href[1].page # Null
        /\ href[1].page[1] \in {Cur, WithoutExt(Cur)}
        /\ NoDecryptionNoReveal

\* C1 amended: in that case the gate redirects to the login page, decrypts nothing
\* and schedules no reveal; script.js always sends page=<current page>, part_000
\* sends page=<current page without .html> except from the root page ('', index,
\* index.html), from which it sends no page parameter.
C1_RedirectToLogin ==
    C1_Case =>
        /\ gate = "REDIRECTING"
        /\ ToLogin
        /\ href[1].page = IF build = "part_000"
                          THEN (IF IsRootPage THEN Null ELSE Some(WithoutExt(Cur)))
                          ELSE Some(Cur)
        /\ gateLog = <<"redirect">>
        /\ verifyCalls = 0
        /\ NoDecryptionNoReveal

C1_Witness ==
    /\ C1_Case /\ pc = "loaded" /\ build = "part_000"
    /\ page = <<"gallery", ".html">>
    /\ href = Some(Href("auth", Some(<<"gallery">>)))

\* the verifier answered status "ok" with a non-empty token string
C2_Answer(o) ==
    /\ o.net = "response" /\ o.ok /\ o.parsed
    /\ o.body.kind = "object"
    /\ o.body.status = Str("ok")
    /\ o.body.token.k = "string" /\ o.body.token.s # ""
C2_Case == pc # "idle" /\ fetchOutcome # Null /\ C2_Answer(fetchOutcome[1])
C2_Steps == <<"verifyAuthentication", "setAuthToken", "replaceState", "decryptNames",
              "decryptAllImages", "setTimeout(openDoors)">>

\* C2: after an "ok" answer with token T the store holds exactly T, the URL has lost
\* the identifier, the gate is AUTHENTICATED without redirect, the calls were made in
\* the order persist, strip, decrypt, schedule reveal, and the decryption ran under T.
C2_VerifiedTokenPersisted ==
    C2_Case =>
        LET T == fetchOutcome[1].body.token.s
        IN  /\ getItem(localStorage, AUTH_TOKEN_KEY) = Some(T)
            /\ ~search
            /\ gate = "AUTHENTICATED"
            /\ href = Null
            /\ verifyCalls = 1
            /\ IsPrefix(gateLog, C2_Steps)
            /\ Len(gateLog) >= 4
            /\ GateEnded => gateLog = C2_Steps
            /\ pc = "gateReturned" => "openDoors" \in timers
            /\ NamesDone => (groomName = GROOM /\ brideName = BRIDE <=> T = KeyToken)

C2_Witness ==
    /\ C2_Case /\ pc = "gateReturned"
    /\ cle = Some("alice42")
    /\ getItem(localStorage, AUTH_TOKEN_KEY) = Some("T1")
    /\ gateLog = C2_Steps
    /\ doc.title = <<BRIDE, JOIN, GROOM>>

\* the verification failed: null result, a status other than "ok", or no token
C3_Failed(o) ==
    \/ o.net = "error" \/ ~o.ok \/ ~o.parsed
    \/ o.body.kind # "object"
    \/ o.body.status # Str("ok")
    \/ o.body.token \in {Undefined, Str("")}
C3_Case == pc # "idle" /\ fetchOutcome # Null /\ C3_Failed(fetchOutcome[1])

C3_Step ==
    (pc = "verifying" /\ lastOp' = "VerifyReturns" /\ C3_Failed(fetchOutcome'[1])) =>
        /\ localStorage' = localStorage
        /\ verifyCalls' = 1
        /\ pc' # "rejected"
        /\ IF TokenPresent
           THEN gate' = "AUTHENTICATED" /\ href' = Null /\ pc' = "decryptNames"
           ELSE gate' = "REDIRECTING" /\ ToLogin' /\ pc' = "gateReturned"

C3_State ==
    C3_Case =>
        /\ verifyCalls = 1
        /\ search
        /\ IF TokenPresent
           THEN /\ gate = "AUTHENTICATED" /\ href = Null
                /\ IsPrefix(gateLog, <<"verifyAuthentication", "decryptNames",
                                       "decryptAllImages", "setTimeout(openDoors)">>)
                /\ NamesDone =>
                     (groomName = GROOM /\ brideName = BRIDE
                        <=> localStorage[AUTH_TOKEN_KEY] = KeyToken)
           ELSE /\ gate = "REDIRECTING" /\ ToLogin
                /\ gateLog = <<"verifyAuthentication", "redirect">>

\* C3: a failed verification does not redirect by itself; the gate falls through to
\* the stored-token check (AUTHENTICATED under the stored token, else REDIRECTING),
\* the verifier was called exactly once and the store is unchanged.
C3_FailureFallsThrough == [][C3_Step]_vars /\ []C3_State

C3_Witness ==
    /\ C3_Case /\ GateEnded
    /\ fetchOutcome[1].body = JsonObject(Str("error"), Str("T2"))
    /\ getItem(localStorage, AUTH_TOKEN_KEY) = Some("T1")
    /\ gate = "AUTHENTICATED"
    /\ groomName = GROOM

\* C4: on a page of the allowlist the gate stops, whatever the identifier and the
\* stored token are: no verifier call, no redirect, no store write, no decryption, no
\* reveal; it stops as PUBLIC_PASS whenever the allowlist test is reached, that is
\* whenever crypto.subtle is available.
C4_PublicPass ==
    /\ [](GateEnded /\ OnPublicPage => NoGateEffects /\ (crypto => gate = "PUBLIC_PASS"))
    /\ [][lastOp' = "DOMContentLoaded" /\ OnPublicPage'
            => localStorage' = localStorage /\ pc' = "gateReturned"]_vars

C4_Witness ==
    /\ pc = "gateReturned" /\ crypto /\ build = "part_000" /\ page = <<"auth">>
    /\ gate = "PUBLIC_PASS"
    /\ HasIdentifier /\ ~TokenPresent /\ search

\* C5: without crypto.subtle the gate aborts first, for every page, URL and stored
\* token: no verifier call, no redirect, no store write, no decryption, no reveal.
C5_EnvironmentFault ==
    /\ [](pc # "idle" /\ ~crypto => GateEnded /\ gate = "ENV_FAULT" /\ NoGateEffects)
    /\ [][lastOp' = "DOMContentLoaded" /\ ~crypto
            => localStorage' = localStorage /\ pc' = "gateReturned"]_vars

C5_Witness ==
    /\ pc = "gateReturned" /\ ~crypto /\ gate = "ENV_FAULT"
    /\ ~OnPublicPage /\ HasIdentifier /\ ~TokenPresent

C6_Case == pc # "idle" /\ crypto /\ ~OnPublicPage /\ ~HasIdentifier /\ TokenPresent
C6_Steps == <<"decryptNames", "decryptAllImages", "setTimeout(openDoors)">>
\* the steps of a page load other than the answer of the verifier
C6_LoadSteps == {"DOMContentLoaded", "GateDecryptNames", "GateDecryptAllImages", "HandlerTail",
                 "RecheckTimer", "openDoors", "HideDoor"}

C6_State ==
    C6_Case =>
        /\ gate = "AUTHENTICATED"
        /\ href = Null
        /\ verifyCalls = 0 /\ fetchOutcome = Null
        /\ IsPrefix(gateLog, C6_Steps) /\ Len(gateLog) >= 1
        /\ GateEnded => gateLog = C6_Steps
        /\ pc = "gateReturned" => "openDoors" \in timers

\* C6: with crypto, a non-public page, no identifier and a non-empty stored token the
\* gate ends AUTHENTICATED: no redirect, no verifier call, content decryption and then
\* the reveal timer; every gate run in that state, a repeated one included, leaves
\* the store unchanged.
C6_StoredTokenAuthenticates ==
    /\ []C6_State
    /\ [][lastOp' \in C6_LoadSteps /\ C6_Case' => localStorage' = localStorage]_vars

\* a second authenticated load of the session: the doors were opened by an earlier one
C6_Witness ==
    /\ C6_Case /\ pc = "gateReturned"
    /\ getItem(sessionStorage, DOOR_SEEN_KEY) # Null
    /\ gate = "AUTHENTICATED"
    /\ "openDoors" \in timers

C7_LogoutStep ==
    lastOp' = "logout" /\ pc # "idle" =>
        /\ getItem(localStorage', AUTH_TOKEN_KEY) = Null
        /\ ToLogin' /\ href'[1].page = Null

C7_FirstLoad == afterLogout = "first" /\ GateEnded /\ ~OnPublicPage /\ ~HasIdentifier

\* C7 as stated: logout removes the token and navigates to the login page, and the
\* next gate evaluation on any protected page without identifier ends REDIRECTING.
C7_NextGateAlwaysRedirects ==
    /\ [][C7_LogoutStep]_vars
    /\ [](C7_FirstLoad => gate = "REDIRECTING" /\ ToLogin)

\* C7 amended: the same, for a next gate evaluation in which crypto.subtle is
\* available (without it the gate aborts and does not redirect).
C7_LogoutThenRedirect ==
    /\ [][C7_LogoutStep]_vars
    /\ [](C7_FirstLoad /\ crypto => gate = "REDIRECTING" /\ ToLogin /\ ~TokenPresent)

\* logout after an authenticated, revealed load, then a protected page
C7_Witness ==
    /\ C7_FirstLoad /\ crypto
    /\ getItem(sessionStorage, DOOR_SEEN_KEY) # Null
    /\ page = <<"gallery">>
    /\ gate = "REDIRECTING"

C8_SetStep ==
    (pc = "verifying" /\ lastOp' = "VerifyReturns" /\ Len(gateLog') >= 2
        /\ gateLog'[2] = "setAuthToken")
    => getItem(localStorage', AUTH_TOKEN_KEY) = Some(authData'[1].token.s)

C8_ClearStep ==
    lastOp' = "logout" /\ pc # "idle" => AUTH_TOKEN_KEY \notin DOMAIN localStorage'

\* C8: isAuthenticated() is true exactly when a token is present and is not the empty
\* string; after setAuthToken(t) the store holds t, after clearAuthToken() nothing.
C8_IsAuthenticated ==
    /\ [](isAuthenticated(localStorage) <=> TokenPresent)
    /\ [](GateEnded /\ crypto /\ ~OnPublicPage /\ gate # "AUTHENTICATED" => ~TokenPresent)
    /\ [][C8_SetStep]_vars
    /\ [][C8_ClearStep]_vars

\* the empty string is stored and the gate treats it as no token
C8_Witness ==
    /\ getItem(localStorage, AUTH_TOKEN_KEY) = Some("")
    /\ GateEnded /\ gate = "REDIRECTING"

\* the verifier answered status "ok" with a token the code accepts
C9_Success(o) ==
    /\ o.net = "response" /\ o.ok /\ o.parsed
    /\ o.body.status = Str("ok")
    /\ o.body.token \notin {Undefined, Str(""), Num("0")}

C9_Step ==
    localStorage' # localStorage =>
        \/ /\ pc = "verifying" /\ lastOp' = "VerifyReturns"
           /\ C9_Success(fetchOutcome'[1])
           /\ DOMAIN localStorage' = {AUTH_TOKEN_KEY}
           /\ localStorage'[AUTH_TOKEN_KEY] = fetchOutcome'[1].body.token.s
        \/ /\ lastOp' = "logout"
           /\ localStorage' = EmptyStorage

\* C9: the stored token changes only by a successful verification (overwritten with
\* the returned token) or by logout (removed); every other step, decryption success
\* or failure included, leaves the store as it is.
C9_StoreFrame ==
    /\ [][C9_Step]_vars
    /\ [][lastOp' \in C6_LoadSteps => localStorage' = localStorage]_vars

\* a load under a wrong token: names and images failed, the token is still stored
C9_Witness ==
    /\ pc = "loaded"
    /\ getItem(localStorage, AUTH_TOKEN_KEY) = Some("T2")
    /\ gate = "AUTHENTICATED"
    /\ groomName = ""
    /\ Len(doc.images) = 2
    /\ doc.images[1].alt = "Image non disponible"
    /\ doc.images[2].alt = "Image non disponible"

\* the causes of failure: network error, non-2xx response, unparseable body
C10_Cause(o) == o.net = "error" \/ ~o.ok \/ ~o.parsed

\* C10: for each of these causes verifyAuthentication returns null and does not
\* throw, and the gate's next state depends on the stored token only.
C10_UniformFailure ==
    /\ pc # "rejected"
    /\ (pc # "idle" /\ fetchOutcome # Null /\ C10_Cause(fetchOutcome[1])) =>
          /\ authData = Some(JsonNull)
          /\ verifyCalls = 1
          /\ gate = IF TokenPresent THEN "AUTHENTICATED" ELSE "REDIRECTING"
          /\ (href # Null) = ~TokenPresent

\* a non-2xx answer whose body would otherwise have been a success
C10_Witness ==
    /\ GateEnded
    /\ fetchOutcome = Some(Response(FALSE, TRUE, JsonObject(Str("ok"), Str("T1"))))
    /\ authData = Some(JsonNull)
    /\ gate = "REDIRECTING"

\* ---- C11..C15, C17: the decryption pipeline inside a page load

\* the token stored under AUTH_TOKEN_KEY is the given string
StoredTokenIs(t) == AUTH_TOKEN_KEY \in DOMAIN localStorage /\ localStorage[AUTH_TOKEN_KEY] = t
\* the markers of the title and of the text nodes are as the server sent them
MarkersUntouched == doc.title = DocumentOf(page).title /\ doc.body = DocumentOf(page).body
\* images of the document
ImageIds == 1..Len(doc.images)
Fetched(i) == Call("fetch", ImageNames[i], FALSE) \in calls
ImageFailed(i) == Call("decryptImage", ImageNames[i], TRUE) \in calls
ImageDecrypted(i) == Call("decryptImage", ImageNames[i], FALSE) \in calls
ImageSettled(i) == ImageFailed(i) \/ ImageDecrypted(i)
\* the reveal timer was started as the last thing the gate did
RevealScheduled == gateLog # <<>> /\ gateLog[Len(gateLog)] = "setTimeout(openDoors)"

\* C11: while a page is loaded and the stored token is the sentinel "authenticated",
\* no decryptText or decryptImage call has been made in this load, no encrypted
\* image has been fetched or bound, and every marker is as the server sent it.
C11_SentinelSkipsDecryption ==
    pc # "idle" /\ StoredTokenIs(SENTINEL) =>
        /\ calls = {}
        /\ imgTasks = {}
        /\ MarkersUntouched
        /\ \A i \in ImageIds : doc.images[i].src = "" /\ doc.images[i].opacity = "css"
C11_Witness ==
    /\ StoredTokenIs(SENTINEL) /\ crypto /\ gate = "AUTHENTICATED" /\ pc = "loaded"
    /\ lastOp = "openDoors" /\ doc.mainVisible
    /\ hasPlaceholders(doc) /\ Len(doc.images) = 2

\* C12: the reveal timer is started only when the gate has finished decryptNames
\* and every image task started by decryptAllImages has settled; while the timer
\* is pending and when openDoors runs, no image task is in flight.
C12_TimerStart ==
    "openDoors" \notin timers /\ "openDoors" \in timers' =>
        /\ pc = "decryptAllImages" /\ imgTasks = {}
        /\ \A i \in ImageIds : Fetched(i) => ImageSettled(i)
        /\ Len(gateLog') >= 3
        /\ SubSeq(gateLog', Len(gateLog') - 2, Len(gateLog'))
             = <<"decryptNames", "decryptAllImages", "setTimeout(openDoors)">>
C12_OpenDoorsStep ==
    lastOp' = "openDoors" /\ "openDoors" \in timers /\ "openDoors" \notin timers' =>
        imgTasks = {} /\ \A i \in ImageIds : Fetched(i) => ImageSettled(i)
C12_State ==
    "openDoors" \in timers =>
        imgTasks = {} /\ GateEnded /\ \A i \in ImageIds : Fetched(i) => ImageSettled(i)
C12_RevealAfterPipeline == [][C12_TimerStart /\ C12_OpenDoorsStep]_vars /\ []C12_State
C12_Witness ==
    /\ lastOp = "openDoors" /\ gate = "AUTHENTICATED" /\ doc.mainVisible
    /\ \A i \in ImageIds : Fetched(i) /\ ImageSettled(i)
    /\ Len(doc.images) = 2
    /\ Call("decryptText", "bride", FALSE) \in calls

\* C13: whatever subset of the images fails and in whatever order the tasks settle,
\* every image whose decryption did not fail has its source bound, the gate is
\* never left rejected by an image, and a gate that ended AUTHENTICATED has
\* scheduled the reveal.
C13_ImagesIsolated ==
    /\ \A i \in ImageIds : ImageDecrypted(i) => doc.images[i].src # ""
    /\ pc = "rejected" => gate = "VERIFYING"
    /\ GateEnded /\ gate = "AUTHENTICATED" => RevealScheduled
C13_Witness ==
    /\ GateEnded /\ gate = "AUTHENTICATED" /\ RevealScheduled
    /\ Len(doc.images) = 2
    /\ doc.images[2].file = "missing" /\ ImageFailed(2)
    /\ ImageDecrypted(1) /\ doc.images[1].src = "blob:image"

\* C14: an image whose fetch or decryption failed has the alternative text
\* "Image non disponible", is not left at opacity 0.3 (it is back at 1, or, for a
\* hero image of part_000, was never dimmed) and has no source bound.
C14_FailedImagePresentation ==
    \A i \in ImageIds : ImageFailed(i) =>
        /\ doc.images[i].alt = "Image non disponible"
        /\ doc.images[i].src = ""
        /\ doc.images[i].opacity # "0.3"
        /\ doc.images[i].opacity = "1"
             \/ (build = "part_000" /\ doc.images[i].hero /\ doc.images[i].opacity = "css")
C14_Witness ==
    /\ Len(doc.images) = 2 /\ imgTasks = {1}
    /\ ImageFailed(2) /\ doc.images[2].opacity = "1"
    /\ doc.images[2].alt = "Image non disponible"
    /\ doc.images[1].opacity = "0.3"

\* C15: an image resource shorter than 16 bytes never decrypts: no blob URL is
\* bound for it under any token, once its task has settled it shows "Image non
\* disponible", and the other images of the batch are bound as they decrypt.
C15_ShortImageFails ==
    \A i \in ImageIds : doc.images[i].file = "short" =>
        /\ ~ImageDecrypted(i)
        /\ doc.images[i].src = ""
        /\ Fetched(i) /\ GateEnded =>
              ImageFailed(i) /\ doc.images[i].alt = "Image non disponible"
        /\ \A j \in ImageIds \ {i} : ImageDecrypted(j) => doc.images[j].src # ""
C15_Witness ==
    /\ GateEnded /\ StoredTokenIs(KeyToken)
    /\ Len(doc.images) = 2 /\ doc.images[2].file = "short"
    /\ ImageFailed(2) /\ doc.images[2].alt = "Image non disponible"
    /\ ImageDecrypted(1) /\ doc.images[1].src = "blob:image"

\* C17: when the decryption of the groom or bride record throws inside the gate's
\* decryptNames, the call still returns normally: title and text nodes are left as
\* they were, decryptAllImages is called next, and the gate ends with the reveal
\* scheduled.
NamesFailed ==
    Call("decryptText", "groom", TRUE) \in calls \/ Call("decryptText", "bride", TRUE) \in calls
C17_Step ==
    pc = "decryptNames" /\ lastOp' = "GateDecryptNames" /\ NamesFailed' =>
        /\ doc'.title = doc.title /\ doc'.body = doc.body
        /\ MarkersUntouched'
        /\ pc' = "decryptAllImages"
        /\ gateLog'[Len(gateLog')] = "decryptAllImages"
C17_State ==
    /\ pc = "rejected" => gate = "VERIFYING" /\ calls = {}
    /\ GateEnded /\ gate = "AUTHENTICATED" /\ NamesFailed => RevealScheduled
C17_NameFailureContained == [][C17_Step]_vars /\ []C17_State
C17_Witness ==
    /\ GateEnded /\ gate = "AUTHENTICATED" /\ NamesFailed /\ RevealScheduled
    /\ hasPlaceholders(doc) /\ MarkersUntouched
    /\ Call("decryptText", "groom", FALSE) \in calls
    /\ "recheck" \in timers

\* ---- C16: text fields of one configuration

\* the record decrypts under the stored token
Decryptable(record) ==
    TokenPresent /\ ~decryptText(record, localStorage[AUTH_TOKEN_KEY], FALSE, crypto).threw
PlainOf(record) == decryptText(record, localStorage[AUTH_TOKEN_KEY], FALSE, crypto).value

\* C16: once decryptNames has run, every record of the configuration that decrypts
\* under the stored token has been decrypted and put to use (groomName, brideName,
\* the href of the WhatsApp link) whatever happened to the other records; likewise
\* the two credentials after decryptSpotifyCredentials.
C16_TextFieldsIsolated ==
    /\ "decryptNames" \in fn.done =>
          /\ Decryptable(fn.config.ENCRYPTED_NAMES.groom) =>
                groomName = PlainOf(fn.config.ENCRYPTED_NAMES.groom)
          /\ Decryptable(fn.config.ENCRYPTED_NAMES.bride) =>
                brideName = PlainOf(fn.config.ENCRYPTED_NAMES.bride)
          /\ build = "part_000" /\ doc.hasWhatsapp /\ Decryptable(fn.config.ENCRYPTED_WHATSAPP_LINK) =>
                doc.whatsapp = Some(PlainOf(fn.config.ENCRYPTED_WHATSAPP_LINK))
    /\ "decryptSpotifyCredentials" \in fn.done =>
          /\ Decryptable(fn.config.ENCRYPTED_SPOTIFY.clientId) =>
                fn.spotifyConfig.clientId = PlainOf(fn.config.ENCRYPTED_SPOTIFY.clientId)
          /\ Decryptable(fn.config.ENCRYPTED_SPOTIFY.clientSecret) =>
                fn.spotifyConfig.clientSecret = PlainOf(fn.config.ENCRYPTED_SPOTIFY.clientSecret)

\* ---- C18, C19: replaceNamePlaceholders

\* a name that is neither a marker nor a replacement pattern
PlainName(n) == n \notin Markers \cup {"$&"}
NamesSet == groomName # "" /\ brideName # ""
Count(text, pieces) == Cardinality({i \in 1..Len(text) : text[i] \in pieces})
PairMarkers == {"{{bride_groom}}", "{{groom_bride}}"}
\* no join but those of the pair markers of the input
JoinsAsPairs(out, in) == Count(out, {JOIN}) = IF NamesSet THEN Count(in, PairMarkers) ELSE 0

\* C18 as stated: for all names and all texts, a second application of
\* replaceNamePlaceholders changes nothing.
C18_Idempotent == fn.applied >= 2 => doc = fn.once

\* C18: for names that are neither a marker nor a replacement pattern, a second
\* application of replaceNamePlaceholders leaves title and text nodes as the first
\* left them, and the result holds one join per pair marker of the input.
C18_IdempotentForPlainNames ==
    fn.applied >= 2 /\ PlainName(groomName) /\ PlainName(brideName) =>
        /\ doc = fn.once
        /\ JoinsAsPairs(doc.title, fn.input.title)
        /\ JoinsAsPairs(doc.body[1], fn.input.body[1])
C18_Witness ==
    /\ fn.applied = 2 /\ groomName = GROOM /\ brideName = BRIDE
    /\ fn.input.title = <<"{{bride_groom}}", "{{groom}}">>
    /\ doc = fn.once
    /\ doc.title = <<BRIDE, JOIN, GROOM, GROOM>>

\* what one marker stands for
Substitute(piece) ==
    IF piece = "{{groom}}" THEN <<groomName>>
    ELSE IF piece = "{{bride}}" THEN <<brideName>>
    ELSE IF piece = "{{bride_groom}}" THEN <<brideName, JOIN, groomName>>
    ELSE IF piece = "{{groom_bride}}" THEN <<groomName, JOIN, brideName>>
    ELSE <<piece>>
RECURSIVE Substituted(_)
Substituted(text) == IF text = <<>> THEN <<>> ELSE Substitute(Head(text)) \o Substituted(Tail(text))
AllReplaced ==
    /\ doc.title = Substituted(fn.input.title)
    /\ doc.body[1] = Substituted(fn.input.body[1])
    /\ ~Includes(doc.title, Markers) /\ ~Includes(doc.body[1], Markers)

\* C19 as stated: once replaceNamePlaceholders has run with both names decrypted,
\* every marker occurrence stands replaced by its name or pair and no marker is left.
C19_AllMarkersReplaced == fn.applied >= 1 /\ NamesSet => AllReplaced

\* C19: the same for names that are neither a marker nor a replacement pattern.
C19_MarkersReplacedByPlainNames ==
    fn.applied >= 1 /\ NamesSet /\ PlainName(groomName) /\ PlainName(brideName) => AllReplaced
C19_Witness ==
    /\ fn.applied = 1 /\ groomName = GROOM /\ brideName = BRIDE
    /\ fn.input.title = <<"{{groom_bride}}", "{{bride}}">>
    /\ doc.title = <<GROOM, JOIN, BRIDE, BRIDE>>
    /\ doc.body[1] = doc.title

\* ---- C20: encryption and decryption sides

\* C20: a text encrypted by encryptText under a token is decrypted back to itself
\* by decryptText under that token, an image file written by encryptImage is
\* decrypted to the bytes of the image, both sides derive the same key from the
\* token, and the file is the 16 bytes of the IV followed by the ciphertext.
C20_RoundTrip ==
    /\ fn.textOut # Null => fn.textOut[1] = TextReturned(fn.text)
    /\ fn.imageOut # Null => fn.imageOut[1] = Decrypted(fn.image)
    /\ deriveKey(fn.token) = keyHash(fn.token)
    /\ fn.file # Null =>
          /\ SliceTo(fn.file[1], 16) = <<randomBytes16(fn.iv)>>
          /\ SliceFrom(fn.file[1], 16) = AesCbcEncrypt(deriveKey(fn.token), <<randomBytes16(fn.iv)>>, fn.image)

\* ---- C21: repeat views within a session

DoorSeen == getItem(sessionStorage, DOOR_SEEN_KEY) # Null
SameLoad == lastOp' # "DOMContentLoaded"

\* C21 as stated: once openDoors has set the session flag doorAnimationSeen, no later
\* page load of the session triggers the door-opening animation again.
C21_NeverTriggeredAgain == [][DoorSeen /\ ~doc.doorOpening => ~doc'.doorOpening]_vars

\* C21: once the session flag is set, every later page load with door elements hides
\* the door container and shows the main content directly, when the handler resumes
\* after the gate and before any timer of the load; the container stays hidden, and
\* openDoors adds the opening class only to the container that is already hidden.
C21_DoorHiddenDirectly ==
    [][DoorSeen /\ SameLoad /\ doc.hasDoor =>
          /\ pc = "gateReturned" /\ pc' = "loaded" => doc'.doorHidden /\ doc'.mainVisible
          /\ doc.doorHidden => doc'.doorHidden
          /\ ~doc.doorOpening /\ doc'.doorOpening => doc.doorHidden]_vars
C21_Witness ==
    /\ lastOp = "openDoors" /\ gate = "AUTHENTICATED"
    /\ doc.doorHidden /\ doc.doorOpening /\ DoorSeen

\* ---- C22: the URL identifier is not retained

\* the verifier's answer passed the gate's test
C22_Verified ==
    /\ authData # Null
    /\ authData[1].status = Str("ok")
    /\ authData[1].token \notin {Undefined, Str(""), Num("0")}
C22_Submitted == verifyCalls >= 1 /\ cle # Null
C22_NotStored ==
    /\ \A k \in DOMAIN localStorage : localStorage[k] # cle[1]
    /\ \A k \in DOMAIN sessionStorage : sessionStorage[k] # cle[1]
C22_NotPassedOn ==
    href # Null =>
        /\ href[1].path \in {"auth", "/auth"}
        /\ href[1].page \in {Null, Some(Cur), Some(WithoutExt(Cur))}

\* C22 as stated: once the gate has submitted the identifier, the visible URL has lost
\* its query string when the gate evaluation ends, no storage holds the identifier and
\* the redirect does not carry it.
C22_AlwaysStripped ==
    GateEnded /\ C22_Submitted => ~search /\ C22_NotStored /\ C22_NotPassedOn

\* C22: the submitted identifier is written to no storage and is not passed on in the
\* redirect; when the gate evaluation ends the visible URL has lost the identifier if
\* the verification succeeded, and still carries it if the verification failed.
C22_IdentifierNotRetained ==
    C22_Submitted =>
        /\ C22_NotStored
        /\ C22_NotPassedOn
        /\ GateEnded => (search <=> ~C22_Verified)
C22_Witness ==
    /\ GateEnded /\ C22_Submitted /\ C22_Verified /\ ~search
    /\ cle = Some("alice42") /\ getItem(localStorage, AUTH_TOKEN_KEY) = Some("T2")
C22_WitnessFailed ==
    /\ GateEnded /\ C22_Submitted /\ ~C22_Verified /\ search
    /\ gate = "AUTHENTICATED" /\ href = Null

\* ---- C23: malformed text records

C23_Colons(str) == Cardinality({i \in 1..Len(str) : str[i].t = "colon"})
\* the part of a string before its first colon, and the part after it
C23_Before(str) ==
    SubSeq(str, 1, (CHOOSE i \in 1..(Len(str) + 1) :
                      /\ i = Len(str) + 1 \/ str[i].t = "colon"
                      /\ \A j \in 1..(i - 1) : str[j].t # "colon") - 1)
C23_After(str) == SubSeq(str, Len(C23_Before(str)) + 2, Len(str))
C23_Malformed(str) ==
    \/ C23_Colons(str) # 1
    \/ C23_Before(str) = <<>>
    \/ C23_After(str) = <<>>

\* C23: decryptText throws, and returns no plaintext, for every string that does not
\* hold exactly one colon or whose IV segment or ciphertext segment is empty.
C23_MalformedRejected ==
    fn.textOut # Null /\ C23_Malformed(fn.record) => fn.textOut[1].threw

\* ---- C29: URL normalisation

\* the characters of a pathname, counted in pieces and slashes
RECURSIVE C29_Size(_)
C29_Size(pathname) ==
    IF pathname = <<>> THEN 0 ELSE 1 + Len(Head(pathname)) + C29_Size(Tail(pathname))
C29_EndsHtmlOrIndex(pathname) ==
    LET last == pathname[Len(pathname)]
    IN  last # <<>> /\ (last[Len(last)] = ".html" \/ last = <<"index">>)

\* C29: every redirect of the redirect script shortens the pathname, so that only
\* finitely many follow one another (at most as many as the pathname has pieces); it
\* keeps the query string and the fragment; and it starts only from a pathname
\* that ends in .html or in /index.
C29_Normalisation ==
    /\ [][/\ C29_Size(fn'.location.pathname) < C29_Size(fn.location.pathname)
          /\ fn'.location.search = fn.location.search
          /\ fn'.location.hash = fn.location.hash
          /\ C29_EndsHtmlOrIndex(fn.location.pathname)]_vars
    /\ [](fn.redirects + C29_Size(fn.location.pathname) <= MaxDepth * (MaxHtml + 2))
C29_Witness ==
    /\ fn.script = "redirect.js" /\ fn.redirects = 2
    /\ fn.location = Location(<< <<"gallery">>, <<>> >>, "?page=gallery", "#rsvp")

\* ---- C24: no redirect loop

\* the page a navigation target names once the redirect script has nothing left to do
C24_Normalised(p) == \A s \in RedirectScripts : redirect(s, Location(<<p>>, "", "")) = Null
\* the browser follows the gate's redirect: the next page load is the login page
C24_FollowsRedirect ==
    /\ gate = "REDIRECTING" /\ ToLogin /\ pc # "idle"
    /\ lastOp' = "DOMContentLoaded"
    /\ page' = <<"auth">> /\ C24_Normalised(page')
    /\ cle' = Null

\* C24: the gate evaluation of the page load that follows a gate redirect ends in
\* PUBLIC_PASS, without a second redirect.
C24_NoRedirectLoop == [][C24_FollowsRedirect => gate' = "PUBLIC_PASS" /\ href' = Null]_vars

\* ---- C25: who sees the main content

\* C25: in a page load whose gate ended in REDIRECTING or in the environment-fault
\* abort the main content is never made visible.
C25_ContentOnlyWhenAuthenticated ==
    pc # "idle" /\ gate \in {"REDIRECTING", "ENV_FAULT"} => ~doc.mainVisible

\* ---- C26: who attempts a decryption

C27_BothDecrypted ==
    /\ Call("decryptText", "groom", FALSE) \in calls
    /\ Call("decryptText", "bride", FALSE) \in calls
    /\ groomName # "" /\ brideName # ""
C27_AllSubstituted ==
    /\ doc.title = Substituted(DocumentOf(page).title)
    /\ doc.body = [i \in 1..Len(doc.body) |-> Substituted(DocumentOf(page).body[i])]
    /\ ~Includes(doc.title, Markers)
    /\ \A i \in 1..Len(doc.body) : ~Includes(doc.body[i], Markers)

\* C27: whatever the gate's decryptNames and the timer's decryptNames did, the text
\* of the document is either as it was served, or both names were decrypted without
\* error in this page load, both are non-empty, and every marker stands replaced by
\* them: never one name's markers alone, never an empty value.
C27_AllOrNothing ==
    lastOp # "init" => MarkersUntouched \/ (C27_BothDecrypted /\ C27_AllSubstituted)
\* the gate's decryptNames failed on the groom, the timer's then went through
C27_Witness ==
    /\ lastOp = "RecheckTimer"
    /\ Call("decryptText", "groom", TRUE) \in calls
    /\ C27_BothDecrypted /\ C27_AllSubstituted /\ ~MarkersUntouched
C27_WitnessHalf ==
    /\ lastOp = "RecheckTimer"
    /\ groomName # "" /\ brideName = "" /\ MarkersUntouched /\ hasPlaceholders(doc)

\* ---- C28: dimmed images

\* loadEncryptedImage has returned for the element and the browser has fired the
\* event of whatever src it was given
C28_Done(i) == ImageSettled(i) /\ ~doc.images[i].pending

\* C28: once loadEncryptedImage is through with an image it dimmed and the browser
\* is through with the image's src, the opacity is no longer 0.3: after a failure,
\* after a success, and after a decryption that yields bytes that are no image.
C28_OpacityRestored ==
    \A i \in ImageIds : pc # "idle" /\ C28_Done(i) => doc.images[i].opacity # "0.3"

\* ---- C30: the carousel index

C30_MaxIndex == IF fn.totalItems > fn.itemsPerView THEN fn.totalItems - fn.itemsPerView ELSE 0
\* the step called nextSlide (chevron, right arrow, swipe to the left)
C30_Next ==
    \/ fn'.event \in {"nextSlide", "ArrowRight"}
    \/ fn'.event = "touchend" /\ fn'.touchStartX - fn'.touchEndX > 50
C30_Prev ==
    \/ fn'.event \in {"prevSlide", "ArrowLeft"}
    \/ fn'.event = "touchend" /\ fn'.touchEndX - fn'.touchStartX > 50

\* C30: 0 <= currentIndex <= max(0, totalItems - itemsPerView) after every sequence
\* of events; nextSlide at the maximum index goes to 0 and below it one up, prevSlide
\* at 0 goes to the maximum index and above it one down, goToSlide clamps, and a
\* resize that changes itemsPerView sets currentIndex to 0.
C30_IndexInRange ==
    /\ [](fn.currentIndex >= 0 /\ fn.currentIndex <= C30_MaxIndex)
    /\ [][C30_Next => fn'.currentIndex =
                         IF fn.currentIndex = C30_MaxIndex THEN 0 ELSE fn.currentIndex + 1]_vars
    /\ [][C30_Prev => fn'.currentIndex =
                         IF fn.currentIndex = 0 THEN C30_MaxIndex ELSE fn.currentIndex - 1]_vars
    /\ [][fn'.itemsPerView # fn.itemsPerView =>
             fn'.event = "resizeTimer" /\ fn'.currentIndex = 0]_vars
C30_Witness ==
    /\ fn.event = "nextSlide" /\ fn.currentIndex = 0 /\ fn.offset = 0
    /\ fn.totalItems = 5 /\ fn.itemsPerView = 3 /\ fn.activeDot = 0 /\ fn.dots = 3
    /\ fn.innerWidth = 375 /\ fn.resizeTimeout

====
